---- MODULE Spec2Model ----
(***************************************************************************)
(* A model of the subprocess runner of cursor-subagent-mcp:                *)
(*   executor/runner.py   invoke_cursor_agent (one invocation)             *)
(*   executor/models.py   StreamEvent.from_json                            *)
(*   executor/utils.py    extract_final_json                               *)
(*   executor/cli.py      find_cursor_agent                                *)
(*   executor/logging.py  get_logger                                       *)
(*                                                                         *)
(* Text is a sequence of tokens, each standing for a fixed run of          *)
(* characters; the regular expressions of utils.py are evaluated on        *)
(* tokens.  Python's None is the empty sequence <<>> where a value is      *)
(* Optional, and a present value v is <<v>>.                               *)
(***************************************************************************)
EXTENDS Integers, Sequences, FiniteSets, TLC

(***************************************************************************)
(* Text.  Tokens and the characters each stands for:                       *)
(*   "p"  word            "P"  a run of 100 letters                        *)
(*   "n"  newline         "F"  ```            "J"  json                    *)
(*   "{" "}" "[" "]"      themselves          "c"  ,                       *)
(*   "v"  "s"   (a JSON string scalar)                                     *)
(*   "m"  "a":1 (a JSON member)               "k"  "k":  (a key and colon) *)
(*   "M"  a JSON member of 100 characters                                  *)
(***************************************************************************)
Tokens == {"p", "P", "n", "F", "J", "{", "}", "[", "]", "c", "v", "m", "k", "M"}

Width(t) ==
    CASE t \in {"n", "{", "}", "[", "]", "c"} -> 1
      [] t \in {"F", "v"} -> 3
      [] t \in {"p", "J", "k"} -> 4
      [] t = "m" -> 5
      [] OTHER -> 100

\* len(text)
RECURSIVE StrLen(_)
StrLen(s) == IF s = <<>> THEN 0 ELSE Width(Head(s)) + StrLen(Tail(s))

\* str.strip(): whitespace removed at both ends
RECURSIVE lstrip(_)
lstrip(s) == IF s # <<>> /\ Head(s) = "n" THEN lstrip(Tail(s)) ELSE s

RECURSIVE rstrip(_)
rstrip(s) ==
    IF s # <<>> /\ s[Len(s)] = "n" THEN rstrip(SubSeq(s, 1, Len(s) - 1)) ELSE s

strip(s) == rstrip(lstrip(s))

\* "".join(parts)
RECURSIVE join(_)
join(parts) == IF parts = <<>> THEN <<>> ELSE Head(parts) \o join(Tail(parts))

(***************************************************************************)
(* json.loads on tokens.  Each Parse operator is given the index of the    *)
(* first token of the construct and returns the index after it, 0 when the *)
(* text is not JSON there.                                                 *)
(***************************************************************************)
RECURSIVE SkipWs(_, _)
SkipWs(s, i) == IF i <= Len(s) /\ s[i] = "n" THEN SkipWs(s, i + 1) ELSE i

RECURSIVE ParseValue(_, _)
RECURSIVE ParseMembers(_, _)
RECURSIVE ParseElements(_, _)

ParseValue(s, i) ==
    IF i = 0 \/ i > Len(s) THEN 0
    ELSE IF s[i] = "v" THEN i + 1
    ELSE IF s[i] = "{" THEN
        LET j == SkipWs(s, i + 1)
        IN  IF j <= Len(s) /\ s[j] = "}" THEN j + 1 ELSE ParseMembers(s, j)
    ELSE IF s[i] = "[" THEN
        LET j == SkipWs(s, i + 1)
        IN  IF j <= Len(s) /\ s[j] = "]" THEN j + 1 ELSE ParseElements(s, j)
    ELSE 0

ParseMembers(s, i) ==
    LET a == IF i > Len(s) THEN 0
             ELSE IF s[i] \in {"m", "M"} THEN i + 1
             ELSE IF s[i] = "k" THEN ParseValue(s, SkipWs(s, i + 1))
             ELSE 0
        b == SkipWs(s, a)
    IN  IF a = 0 \/ b > Len(s) THEN 0
        ELSE IF s[b] = "}" THEN b + 1
        ELSE IF s[b] = "c" THEN ParseMembers(s, SkipWs(s, b + 1))
        ELSE 0

ParseElements(s, i) ==
    LET a == ParseValue(s, i)
        b == SkipWs(s, a)
    IN  IF a = 0 \/ b > Len(s) THEN 0
        ELSE IF s[b] = "]" THEN b + 1
        ELSE IF s[b] = "c" THEN ParseElements(s, SkipWs(s, b + 1))
        ELSE 0

\* json.loads(s) does not raise JSONDecodeError
json_loads_ok(s) ==
    LET e == ParseValue(s, SkipWs(s, 1))
    IN  e # 0 /\ SkipWs(s, e) > Len(s)

\* isinstance(json.loads(s), (dict, list))
json_is_container(s) ==
    json_loads_ok(s) /\ s[SkipWs(s, 1)] \in {"{", "["}

(***************************************************************************)
(* re.findall of json_block_pattern and code_block_pattern: a fence (with  *)
(* the label json for the first), whitespace ending in a newline, the      *)
(* shortest group that a newline and a fence follow.                       *)
(***************************************************************************)
\* the first j >= from with s[j..j+1] = newline, fence; 0 when there is none
RECURSIVE FirstCloser(_, _)
FirstCloser(s, from) ==
    IF from + 1 > Len(s) THEN 0
    ELSE IF s[from] = "n" /\ s[from + 1] = "F" THEN from
    ELSE FirstCloser(s, from + 1)

RECURSIVE NewlineRun(_, _)
NewlineRun(s, i) == IF i <= Len(s) /\ s[i] = "n" THEN 1 + NewlineRun(s, i + 1) ELSE 0

\* \s*\n takes k newlines, the most first (greedy); (.*?) the fewest tokens.
\* <<start of the group, index of the closer>> or <<>>.
RECURSIVE FenceTry(_, _, _)
FenceTry(s, a, k) ==
    IF k = 0 THEN <<>>
    ELSE LET j == FirstCloser(s, a + k)
         IN  IF j # 0 THEN <<a + k, j>> ELSE FenceTry(s, a, k - 1)

OpensAt(s, open, i) ==
    /\ i + Len(open) - 1 <= Len(s)
    /\ SubSeq(s, i, i + Len(open) - 1) = open

RECURSIVE FindFenced(_, _, _)
FindFenced(s, open, i) ==
    IF i > Len(s) THEN <<>>
    ELSE IF OpensAt(s, open, i) THEN
        LET a == i + Len(open)
            m == FenceTry(s, a, NewlineRun(s, a))
        IN  IF m # <<>>
            THEN <<SubSeq(s, m[1], m[2] - 1)>> \o FindFenced(s, open, m[2] + 2)
            ELSE FindFenced(s, open, i + 1)
    ELSE FindFenced(s, open, i + 1)

(***************************************************************************)
(* re.findall of json_object_pattern and json_array_pattern: an opening    *)
(* bracket, then tokens that are no bracket of that kind and groups of one *)
(* bracket pair holding no bracket of that kind, then a closing bracket.   *)
(***************************************************************************)
\* the first index >= j holding o or c, Len(s)+1 when there is none
RECURSIVE NextBracket(_, _, _, _)
NextBracket(s, j, o, c) ==
    IF j > Len(s) \/ s[j] \in {o, c} THEN j ELSE NextBracket(s, j + 1, o, c)

\* the index of the closing bracket of the match that starts after the opening
\* bracket, scanning from j; 0 when the pattern does not match
RECURSIVE BracketEnd(_, _, _, _)
BracketEnd(s, j, o, c) ==
    LET b == NextBracket(s, j, o, c)
    IN  IF b > Len(s) THEN 0
        ELSE IF s[b] = c THEN b
        ELSE LET e == NextBracket(s, b + 1, o, c)
             IN  IF e <= Len(s) /\ s[e] = c THEN BracketEnd(s, e + 1, o, c) ELSE 0

RECURSIVE FindBracketed(_, _, _, _)
FindBracketed(s, i, o, c) ==
    IF i > Len(s) THEN <<>>
    ELSE IF s[i] = o /\ BracketEnd(s, i + 1, o, c) # 0 THEN
        LET e == BracketEnd(s, i + 1, o, c)
        IN  <<SubSeq(s, i, e)>> \o FindBracketed(s, e + 1, o, c)
    ELSE FindBracketed(s, i + 1, o, c)

\* for match in reversed(code_matches): the first whose stripped text loads as
\* a dict or a list
RECURSIVE LastContainer(_)
LastContainer(matches) ==
    IF matches = <<>> THEN <<>>
    ELSE LET m == matches[Len(matches)]
         IN  IF json_is_container(strip(m)) THEN <<strip(m)>>
             ELSE LastContainer(SubSeq(matches, 1, Len(matches) - 1))

\* for match in reversed(object_matches): the first that loads
RECURSIVE LastLoadable(_)
LastLoadable(matches) ==
    IF matches = <<>> THEN <<>>
    ELSE LET m == matches[Len(matches)]
         IN  IF json_loads_ok(m) THEN <<strip(m)>>
             ELSE LastLoadable(SubSeq(matches, 1, Len(matches) - 1))

\* json_matches[-1] alone is tried
Tier1(text) ==
    LET ms == FindFenced(text, <<"F", "J">>, 1)
    IN  IF ms # <<>> /\ json_loads_ok(ms[Len(ms)]) THEN <<strip(ms[Len(ms)])>> ELSE <<>>

Tier2(text) == LastContainer(FindFenced(text, <<"F">>, 1))

\* a mutant: the last match of the object pattern is returned without loading it
Tier3Unchecked(text) ==
    LET ms == FindBracketed(text, 1, "{", "}")
    IN  IF ms = <<>> THEN <<>> ELSE <<strip(ms[Len(ms)])>>

Tier3(text) == LastLoadable(FindBracketed(text, 1, "{", "}"))

Tier4(text) == LastLoadable(FindBracketed(text, 1, "[", "]"))

\* a mutant: the array pattern is tried before the object pattern
extract_final_json_array_first(text) ==
    IF text = <<>> THEN <<>>
    ELSE IF Tier1(text) # <<>> THEN Tier1(text)
    ELSE IF Tier2(text) # <<>> THEN Tier2(text)
    ELSE IF Tier4(text) # <<>> THEN Tier4(text)
    ELSE Tier3(text)

\* utils.extract_final_json: <<>> for None, <<json>> otherwise
extract_final_json(text) ==
    IF text = <<>> THEN <<>>
    ELSE IF Tier1(text) # <<>> THEN Tier1(text)
    ELSE IF Tier2(text) # <<>> THEN Tier2(text)
    ELSE IF Tier3(text) # <<>> THEN Tier3(text)
    ELSE Tier4(text)

(***************************************************************************)
(* Bounds of the model.                                                    *)
(***************************************************************************)
\* stdout lines the subprocess writes in one invocation
MaxLines == 2

\* stderr lines the subprocess writes in one invocation
MaxErrLines == 1

\* fenced blocks and raw JSON fragments in a text given to extract_final_json
MaxSegments == 3

\* tokens of a text of brackets given to extract_final_json
MaxBrackets == 6

None == <<>>

(***************************************************************************)
(* models.py.  A stdout line after decode and strip: json says how         *)
(* json.loads takes it ("blank": nothing left after strip, "invalid":      *)
(* JSONDecodeError, "other": a JSON value that is no object, "object"); the *)
(* other fields are the keys of the object the runner reads, None when the *)
(* key is absent.                                                          *)
(***************************************************************************)
Line(json, type, subtype, session_id, duration_ms, content) ==
    [json |-> json, type |-> type, subtype |-> subtype,
     session_id |-> session_id, duration_ms |-> duration_ms, content |-> content]

BlankLine == Line("blank", None, None, None, None, <<>>)
InvalidLine == Line("invalid", None, None, None, None, <<>>)
NonObjectLine == Line("other", None, None, None, None, <<>>)
InitLine(sid) == Line("object", <<"system">>, <<"init">>, <<sid>>, None, <<>>)
ResultLine(ms) == Line("object", <<"result">>, <<"success">>, None, <<ms>>, <<>>)
ThinkingLine == Line("object", <<"thinking">>, <<"delta">>, None, None, <<>>)
UntypedLine == Line("object", None, None, None, None, <<>>)
AssistantLine(content) == Line("object", <<"assistant">>, None, None, None, content)
InitLineNoSession == Line("object", <<"system">>, <<"init">>, None, None, <<>>)
SystemLine == Line("object", <<"system">>, <<"status">>, <<"s3">>, None, <<>>)
ResultLineNoDuration == Line("object", <<"result">>, <<"success">>, None, None, <<>>)
ToolCallLine == Line("object", <<"tool_call">>, <<"started">>, None, None, <<>>)

TextBlock(text) == [type |-> "text", text |-> text]
ImageBlock == [type |-> "image", text |-> <<>>]

\* a mutant: every JSON value, object or not, gives an event
from_json_any_value(line) ==
    IF line.json \in {"invalid", "blank"} THEN [raised |-> FALSE, event |-> None]
    ELSE [raised |-> FALSE,
          event |-> <<[event_type |-> IF line.type = None THEN "unknown" ELSE line.type[1],
                       subtype |-> line.subtype,
                       data |-> line]>>]

\* a mutant: the type is read with data["type"], which raises when it is absent
from_json_type_required(line) ==
    IF line.json \in {"invalid", "blank"} THEN [raised |-> FALSE, event |-> None]
    ELSE IF line.json = "other" \/ line.type = None THEN [raised |-> TRUE, event |-> None]
    ELSE [raised |-> FALSE,
          event |-> <<[event_type |-> line.type[1],
                       subtype |-> line.subtype,
                       data |-> line]>>]

\* StreamEvent.from_json.  raised: an exception other than JSONDecodeError left
\* the method (data.get on a value that is no dict); event: the Optional result.
from_json(line) ==
    IF line.json \in {"invalid", "blank"} THEN [raised |-> FALSE, event |-> None]
    ELSE IF line.json = "other" THEN [raised |-> TRUE, event |-> None]
    ELSE [raised |-> FALSE,
          event |-> <<[event_type |-> IF line.type = None THEN "unknown" ELSE line.type[1],
                       subtype |-> line.subtype,
                       data |-> line]>>]

\* ExecutionResult; error is the list of the parts of the message, None when empty
ExecutionResult(success, output, error, return_code, events, session_id, duration_ms) ==
    [success |-> success, output |-> output, error |-> error,
     return_code |-> return_code, events |-> events,
     session_id |-> session_id, duration_ms |-> duration_ms]

ErrorPart(tag, text, code) == [t |-> tag, v |-> text, n |-> code]

(***************************************************************************)
(* cli.py                                                                  *)
(***************************************************************************)
common_paths == <<"~/.local/bin/cursor-agent", "/usr/local/bin/cursor-agent", "~/bin/cursor-agent">>

\* which: the Optional result of shutil.which; files[i]: what os.path.isfile and
\* os.access(X_OK) say of common_paths[i]
RECURSIVE FirstCandidate(_, _)
FirstCandidate(files, i) ==
    IF i > Len(common_paths) THEN None
    ELSE IF files[i].isfile /\ files[i].x_ok THEN <<common_paths[i]>>
    ELSE FirstCandidate(files, i + 1)

\* a mutant: a candidate that is a file is returned, executable or not
find_cursor_agent_any_file(which, files) ==
    LET found == { i \in 1..Len(common_paths) : files[i].isfile }
    IN  IF which # None THEN which
        ELSE IF found = {} THEN None
        ELSE <<common_paths[CHOOSE i \in found : \A j \in found : i <= j]>>

find_cursor_agent(which, files) ==
    IF which # None THEN which ELSE FirstCandidate(files, 1)

NoFile == [isfile |-> FALSE, x_ok |-> FALSE]
PlainFile == [isfile |-> TRUE, x_ok |-> FALSE]
ExecFile == [isfile |-> TRUE, x_ok |-> TRUE]

\* the file systems an invocation of the runner is started in
Environments ==
    { [which |-> <<"/usr/bin/cursor-agent">>, files |-> <<NoFile, NoFile, NoFile>>],
      [which |-> None, files |-> <<PlainFile, NoFile, NoFile>>],
      [which |-> None, files |-> <<NoFile, NoFile, NoFile>>] }

(***************************************************************************)
(* logging.py.  get_logger raises when _logger is not set yet and          *)
(* _setup_logger, asked for a log file, cannot create its directory: the   *)
(* two mkdir calls are outside its try.                                    *)
(***************************************************************************)
get_logger_raises(cached, log_env, mkdir_ok) ==
    ~cached /\ log_env # "unset" /\ ~mkdir_ok

(***************************************************************************)
(* runner.py: the inputs of the model.                                     *)
(***************************************************************************)
ShortText == <<"p">>
LongJson == <<"{", "M", "}">>

StdoutLines ==
    { InvalidLine, NonObjectLine, InitLine("s1"), ThinkingLine,
      AssistantLine(<<TextBlock(ShortText)>>),
      AssistantLine(<<ImageBlock, TextBlock(LongJson)>>) }

\* the lines of a stream that shows every kind of event
AllStdoutLines ==
    { BlankLine, InvalidLine, NonObjectLine, UntypedLine,
      InitLine("s1"), InitLine("s2"), InitLineNoSession, SystemLine,
      ResultLine(5), ResultLineNoDuration, ToolCallLine, ThinkingLine,
      AssistantLine(<<TextBlock(ShortText)>>) }

\* a stderr line, without its newline
StderrLines == {"PREMATURE CLOSE", "NGHTTP2_INTERNAL_ERROR", "boom"}

\* str.lower() of a stderr line
Lower(l) ==
    CASE l \in {"Premature close", "PREMATURE CLOSE"} -> "premature close"
      [] l = "NGHTTP2_INTERNAL_ERROR" -> "nghttp2_internal_error"
      [] OTHER -> l

\* "".join(stderr_output).strip(): the lines, without the blank ones at the ends
RECURSIVE StripLines(_)
StripLines(ls) ==
    IF ls = <<>> THEN <<>>
    ELSE IF Head(ls) = "" THEN StripLines(Tail(ls))
    ELSE IF ls[Len(ls)] = "" THEN StripLines(SubSeq(ls, 1, Len(ls) - 1))
    ELSE ls

\* what the subprocess may exit with by itself
ExitCodes == {0, 1}

\* process.returncode of a process ended by process.kill()
KilledCode == -9

\* the return_code of a result that holds no exit code
Sentinel == -1

\* has_useful_output: more than this many characters
UsefulLength == 100

(***************************************************************************)
(* runner.py: process_stream, the body of the loop for one line.           *)
(***************************************************************************)
\* the text of the blocks of kind text of message.content
RECURSIVE TextsOf(_)
TextsOf(content) ==
    IF content = <<>> THEN <<>>
    ELSE IF Head(content).type = "text"
         THEN <<Head(content).text>> \o TextsOf(Tail(content))
         ELSE TextsOf(Tail(content))

Accumulated(ev, msgs, sid, dur) ==
    [events |-> ev, assistant_messages |-> msgs, session_id |-> sid, duration_ms |-> dur]

\* a mutant: thinking events are dropped from the list
process_line_skip_thinking(acc, line) ==
    IF line.json = "blank" THEN acc
    ELSE LET r == from_json(line)
         IN  IF r.raised \/ r.event = None THEN acc
             ELSE LET event == r.event[1]
                  IN  Accumulated(
                        IF event.event_type = "thinking"
                        THEN acc.events
                        ELSE Append(acc.events, event),
                        IF event.event_type = "assistant"
                        THEN acc.assistant_messages \o TextsOf(event.data.content)
                        ELSE acc.assistant_messages,
                        IF event.event_type = "system" /\ event.subtype = <<"init">>
                        THEN event.data.session_id
                        ELSE acc.session_id,
                        IF event.event_type = "result"
                        THEN event.data.duration_ms
                        ELSE acc.duration_ms)

\* a mutant: session_id and duration_ms are read from every event
process_line_every_event(acc, line) ==
    IF line.json = "blank" THEN acc
    ELSE LET r == from_json(line)
         IN  IF r.raised \/ r.event = None THEN acc
             ELSE LET event == r.event[1]
                  IN  Accumulated(
                        Append(acc.events, event),
                        IF event.event_type = "assistant"
                        THEN acc.assistant_messages \o TextsOf(event.data.content)
                        ELSE acc.assistant_messages,
                        event.data.session_id,
                        event.data.duration_ms)

process_line(acc, line) ==
    IF line.json = "blank" THEN acc
    ELSE LET r == from_json(line)
         IN  IF r.raised \/ r.event = None THEN acc
             ELSE LET event == r.event[1]
                  IN  Accumulated(
                        Append(acc.events, event),
                        IF event.event_type = "assistant"
                        THEN acc.assistant_messages \o TextsOf(event.data.content)
                        ELSE acc.assistant_messages,
                        IF event.event_type = "system" /\ event.subtype = <<"init">>
                        THEN event.data.session_id
                        ELSE acc.session_id,
                        IF event.event_type = "result"
                        THEN event.data.duration_ms
                        ELSE acc.duration_ms)

(***************************************************************************)
(* runner.py: the results.                                                 *)
(***************************************************************************)
\* a mutant: only an extracted JSON is ever returned
output_to_return_json_only(text) ==
    IF extract_final_json(text) # None THEN extract_final_json(text)[1] ELSE <<>>

\* final_json if final_json else the text
output_to_return(text) ==
    IF extract_final_json(text) # None /\ extract_final_json(text)[1] # <<>>
    THEN extract_final_json(text)[1]
    ELSE text

NotFoundResult ==
    ExecutionResult(FALSE, <<>>, <<ErrorPart("cli_not_found", <<>>, 0)>>, Sentinel,
                    <<>>, None, None)

\* a mutant: the failed spawn is reported without an error
FailedToExecuteResultNoError(path) ==
    ExecutionResult(FALSE, <<>>, None, Sentinel, <<>>, None, None)

FailedToExecuteResult(path) ==
    ExecutionResult(FALSE, <<>>, <<ErrorPart("failed_to_execute", path, 0)>>, Sentinel,
                    <<>>, None, None)

UnexpectedErrorResult(exc) ==
    ExecutionResult(FALSE, <<>>, <<ErrorPart("unexpected", <<exc>>, 0)>>, Sentinel,
                    <<>>, None, None)

\* a mutant: the partial text is returned as it is
TimeoutResultRawText(msgs, ev, sid) ==
    ExecutionResult(FALSE, join(msgs),
                    <<ErrorPart("timed_out", <<>>, 0)>>, Sentinel, ev, sid, None)

TimeoutResult(msgs, ev, sid) ==
    ExecutionResult(FALSE, output_to_return(join(msgs)),
                    <<ErrorPart("timed_out", <<>>, 0)>>, Sentinel, ev, sid, None)

\* a mutant: the signature is looked for in one letter case only
is_premature_close_one_case(stderr_str) ==
    \E i \in 1..Len(stderr_str) :
        \/ stderr_str[i] = "Premature close"
        \/ stderr_str[i] = "NGHTTP2_INTERNAL_ERROR"

is_premature_close(stderr_str) ==
    \E i \in 1..Len(stderr_str) :
        \/ stderr_str[i] = "Premature close"
        \/ Lower(stderr_str[i]) = "premature close"
        \/ stderr_str[i] = "NGHTTP2_INTERNAL_ERROR"

\* a mutant: an output of exactly the threshold is useful
has_useful_output_at_least(output) == StrLen(strip(output)) >= UsefulLength

has_useful_output(output) == StrLen(strip(output)) > UsefulLength

\* a mutant: the stream exception is put before the stderr content
error_parts_stream_first(stderr_str, benign, serr, code) ==
    LET a == IF stderr_str # <<>> /\ ~benign
             THEN <<ErrorPart("stderr", stderr_str, 0)>> ELSE <<>>
        b == IF serr # None THEN <<ErrorPart("stream_error", serr, 0)>> ELSE <<>>
    IN  IF code # 0 /\ a \o b = <<>>
        THEN <<ErrorPart("exit_code", <<>>, code)>>
        ELSE b \o a

error_parts(stderr_str, benign, serr, code) ==
    LET a == IF stderr_str # <<>> /\ ~benign
             THEN <<ErrorPart("stderr", stderr_str, 0)>> ELSE <<>>
        b == IF serr # None THEN <<ErrorPart("stream_error", serr, 0)>> ELSE <<>>
    IN  IF code # 0 /\ a \o b = <<>>
        THEN <<ErrorPart("exit_code", <<>>, code)>>
        ELSE a \o b

\* a mutant: the stream exception is reported in a success too
ClassifyResultStreamErrorOnSuccess(msgs, errlines, serr, code, ev, sid, dur) ==
    LET output == output_to_return(join(msgs))
        stderr_str == StripLines(errlines)
        benign == is_premature_close(stderr_str) /\ has_useful_output(output)
        parts == error_parts(stderr_str, benign, serr, code)
    IN  IF code = 0 \/ benign
        THEN ExecutionResult(TRUE, output, IF parts # <<>> THEN parts ELSE None,
                 code, ev, sid, dur)
        ELSE ExecutionResult(FALSE, output,
                 IF parts # <<>> THEN parts ELSE <<ErrorPart("exit_code", <<>>, code)>>,
                 code, ev, sid, dur)

\* a mutant: a success is given the return code 0
ClassifyResultZeroOnSuccess(msgs, errlines, serr, code, ev, sid, dur) ==
    LET output == output_to_return(join(msgs))
        stderr_str == StripLines(errlines)
        benign == is_premature_close(stderr_str) /\ has_useful_output(output)
        parts == error_parts(stderr_str, benign, serr, code)
    IN  IF code = 0 \/ benign
        THEN ExecutionResult(TRUE, output,
                 IF benign THEN None
                 ELSE IF stderr_str # <<>> THEN <<ErrorPart("stderr", stderr_str, 0)>>
                 ELSE None,
                 0, ev, sid, dur)
        ELSE ExecutionResult(FALSE, output,
                 IF parts # <<>> THEN parts ELSE <<ErrorPart("exit_code", <<>>, code)>>,
                 code, ev, sid, dur)

\* lines 275-354: the classifier
ClassifyResult(msgs, errlines, serr, code, ev, sid, dur) ==
    LET output == output_to_return(join(msgs))
        stderr_str == StripLines(errlines)
        benign == is_premature_close(stderr_str) /\ has_useful_output(output)
        parts == error_parts(stderr_str, benign, serr, code)
    IN  IF code = 0 \/ benign
        THEN ExecutionResult(TRUE, output,
                 IF benign THEN None
                 ELSE IF stderr_str # <<>> THEN <<ErrorPart("stderr", stderr_str, 0)>>
                 ELSE None,
                 code, ev, sid, dur)
        ELSE ExecutionResult(FALSE, output,
                 IF parts # <<>> THEN parts ELSE <<ErrorPart("exit_code", <<>>, code)>>,
                 code, ev, sid, dur)

(***************************************************************************)
(* runner.py: invoke_cursor_agent as a state machine.  A step is the code  *)
(* the coroutine runs between two awaits, or a step of the environment     *)
(* (the subprocess writes, closes a stream or exits; time passes).         *)
(***************************************************************************)
VARIABLES
    pc,                 \* where invoke_cursor_agent is
    timeout,            \* the argument: None or <<seconds>>
    deadline,           \* None until timeout seconds have passed, then when they did
    cursor_agent,       \* the Optional path find_cursor_agent returned
    proc,               \* "none", "failed" (not created), "running", "exited"
    returncode,         \* process.returncode: None or <<code>>
    consumed,           \* the stdout lines process_stream has taken
    events, assistant_messages, session_id, duration_ms, stream_error,
    stderr_task,        \* "none", "running", "done", "cancelled"
    stderr_output,
    ops,                \* the calls made on the subprocess, in order
    result,             \* the Optional ExecutionResult built
    raised,             \* the Optional exception that left invoke_cursor_agent
    arg,                \* the argument of a function called by itself
    ret,                \* None until that function returns, then <<what it returned>>
    frames,             \* the list objects and the locals of concurrent invocations
    logger,             \* the state of the module logging.py and its callers
    agents_dir,         \* what the agent files on disk hold now
    _config,            \* the global of server.py: None or <<Config>>
    load_config_calls,  \* how many times load_config was called
    shell_config,       \* .zshrc and .bashrc: each None or <<its lines>>
    steps_output,       \* the list of install_cursor_cli
    install_calls       \* how many times install_cursor_cli was called

acc_vars == <<events, assistant_messages, session_id, duration_ms>>
in_vars == <<consumed, stream_error>>
err_vars == <<stderr_task, stderr_output>>
proc_vars == <<proc, returncode>>
call_vars == <<arg, ret, frames, logger>>
host_vars == <<agents_dir, _config, load_config_calls, shell_config, steps_output,
               install_calls>>
vars == <<pc, timeout, deadline, cursor_agent, proc, returncode, consumed, events,
          assistant_messages, session_id, duration_ms, stream_error, stderr_task,
          stderr_output, ops, result, raised, arg, ret, frames, logger,
          agents_dir, _config, load_config_calls, shell_config, steps_output,
          install_calls>>

\* no configuration was asked for and install_cursor_cli was not called
HostIdle ==
    /\ agents_dir = None
    /\ _config = None
    /\ load_config_calls = 0
    /\ shell_config = None
    /\ steps_output = <<>>
    /\ install_calls = 0

Init ==
    /\ HostIdle
    /\ pc = "get_logger"
    /\ timeout \in {None, <<30>>}
    /\ deadline = None
    /\ cursor_agent = None
    /\ proc = "none"
    /\ returncode = None
    /\ consumed = <<>>
    /\ events = <<>>
    /\ assistant_messages = <<>>
    /\ session_id = None
    /\ duration_ms = None
    /\ stream_error = None
    /\ stderr_task = "none"
    /\ stderr_output = <<>>
    /\ ops = <<>>
    /\ result = None
    /\ raised = None
    /\ arg = None
    /\ ret = None
    /\ frames = None
    /\ logger = None

\* line 89
GetLogger ==
    /\ pc = "get_logger"
    /\ \E cached \in BOOLEAN, log_env \in {"unset", "true", "/var/log/agents/a.log"},
          mkdir_ok \in BOOLEAN :
        IF get_logger_raises(cached, log_env, mkdir_ok)
        THEN pc' = "raised" /\ raised' = <<"OSError">>
        ELSE pc' = "find" /\ raised' = raised
    /\ UNCHANGED <<host_vars, call_vars, timeout, deadline, cursor_agent, proc_vars, in_vars, acc_vars,
                   err_vars, ops, result>>

\* a mutant: the path is not checked for None
FindCursorAgentUnchecked ==
    /\ pc = "find"
    /\ \E env \in Environments :
        cursor_agent' = find_cursor_agent(env.which, env.files)
    /\ pc' = "spawn"
    /\ UNCHANGED <<host_vars, call_vars, timeout, deadline, proc_vars, in_vars, acc_vars, err_vars, ops,
                   result, raised>>

\* lines 91-99
FindCursorAgent ==
    /\ pc = "find"
    /\ \E env \in Environments :
        /\ cursor_agent' = find_cursor_agent(env.which, env.files)
        /\ IF cursor_agent' = None
           THEN pc' = "done" /\ result' = <<NotFoundResult>>
           ELSE pc' = "spawn" /\ result' = result
    /\ UNCHANGED <<host_vars, call_vars, timeout, deadline, proc_vars, in_vars, acc_vars, err_vars, ops, raised>>

\* a mutant: only FileNotFoundError has a handler
CreateSubprocessOneHandler ==
    /\ pc = "spawn"
    /\ ops' = Append(ops, "spawn")
    /\ \E outcome \in {"ok", "FileNotFoundError", "PermissionError"} :
        CASE outcome = "ok" ->
                /\ proc' = "running"
                /\ stderr_task' = "running"
                /\ pc' = "streaming"
                /\ UNCHANGED <<host_vars, call_vars, result, raised>>
          [] outcome = "FileNotFoundError" ->
                /\ proc' = "failed"
                /\ stderr_task' = stderr_task
                /\ pc' = "done"
                /\ result' = <<FailedToExecuteResult(cursor_agent)>>
                /\ raised' = raised
          [] OTHER ->
                /\ proc' = "failed"
                /\ stderr_task' = stderr_task
                /\ pc' = "raised"
                /\ result' = result
                /\ raised' = <<outcome>>
    /\ UNCHANGED <<host_vars, call_vars, timeout, deadline, cursor_agent, returncode, in_vars, acc_vars,
                   stderr_output>>

\* a mutant: a failed spawn is tried once more
CreateSubprocessRetry ==
    /\ pc = "spawn"
    /\ ops' = Append(ops, "spawn")
    /\ \E outcome \in {"ok", "FileNotFoundError", "PermissionError"} :
        CASE outcome = "ok" ->
                /\ proc' = "running"
                /\ stderr_task' = "running"
                /\ pc' = "streaming"
                /\ result' = result
          [] ops = <<>> ->
                /\ proc' = proc
                /\ stderr_task' = stderr_task
                /\ pc' = "spawn"
                /\ result' = result
          [] OTHER ->
                /\ proc' = "failed"
                /\ stderr_task' = stderr_task
                /\ pc' = "done"
                /\ result' = <<UnexpectedErrorResult(outcome)>>
    /\ UNCHANGED <<host_vars, call_vars, timeout, deadline, cursor_agent, returncode, in_vars, acc_vars,
                   stderr_output, raised>>

\* lines 140-163 and the handlers of lines 356-371
CreateSubprocess ==
    /\ pc = "spawn"
    /\ ops' = Append(ops, "spawn")
    /\ \E outcome \in {"ok", "FileNotFoundError", "PermissionError"} :
        CASE outcome = "ok" ->
                /\ proc' = "running"
                /\ stderr_task' = "running"
                /\ pc' = "streaming"
                /\ result' = result
          [] outcome = "FileNotFoundError" ->
                /\ proc' = "failed"
                /\ stderr_task' = stderr_task
                /\ pc' = "done"
                /\ result' = <<FailedToExecuteResult(cursor_agent)>>
          [] OTHER ->
                /\ proc' = "failed"
                /\ stderr_task' = stderr_task
                /\ pc' = "done"
                /\ result' = <<UnexpectedErrorResult(outcome)>>
    /\ UNCHANGED <<host_vars, call_vars, timeout, deadline, cursor_agent, returncode, in_vars, acc_vars,
                   stderr_output, raised>>

\* lines 176-204: process_stream takes one line
ReadStdout ==
    /\ pc = "streaming"
    /\ Len(consumed) < MaxLines
    /\ \E line \in StdoutLines :
        LET acc == process_line(
                     Accumulated(events, assistant_messages, session_id, duration_ms),
                     line)
        IN  /\ consumed' = Append(consumed, line)
            /\ events' = acc.events
            /\ assistant_messages' = acc.assistant_messages
            /\ session_id' = acc.session_id
            /\ duration_ms' = acc.duration_ms
    /\ UNCHANGED <<host_vars, call_vars, pc, timeout, deadline, cursor_agent, proc_vars, stream_error,
                   err_vars, ops, result, raised>>

\* a mutant: a line that is not JSON ends the loop as a stream error
ReadStdoutStopAtMalformed ==
    /\ pc = "streaming"
    /\ Len(consumed) < MaxLines
    /\ \E line \in AllStdoutLines :
        LET acc == process_line(
                     Accumulated(events, assistant_messages, session_id, duration_ms),
                     line)
        IN  /\ consumed' = Append(consumed, line)
            /\ events' = acc.events
            /\ assistant_messages' = acc.assistant_messages
            /\ session_id' = acc.session_id
            /\ duration_ms' = acc.duration_ms
            /\ IF line.json = "invalid"
               THEN pc' = "post_stream" /\ stream_error' = <<"JSONDecodeError">>
               ELSE pc' = pc /\ stream_error' = stream_error
    /\ UNCHANGED <<host_vars, call_vars, timeout, deadline, cursor_agent, proc_vars,
                   err_vars, ops, result, raised>>

\* the same lines of the code, for a subprocess whose stream shows every kind of
\* event
ReadStdoutAll ==
    /\ pc = "streaming"
    /\ Len(consumed) < MaxLines
    /\ \E line \in AllStdoutLines :
        LET acc == process_line(
                     Accumulated(events, assistant_messages, session_id, duration_ms),
                     line)
        IN  /\ consumed' = Append(consumed, line)
            /\ events' = acc.events
            /\ assistant_messages' = acc.assistant_messages
            /\ session_id' = acc.session_id
            /\ duration_ms' = acc.duration_ms
    /\ UNCHANGED <<host_vars, call_vars, pc, timeout, deadline, cursor_agent, proc_vars, stream_error,
                   err_vars, ops, result, raised>>

\* line 176: the loop ends at end-of-stream
StdoutEOF ==
    /\ pc = "streaming"
    /\ pc' = "post_stream"
    /\ UNCHANGED <<host_vars, call_vars, timeout, deadline, cursor_agent, proc_vars, in_vars, acc_vars,
                   err_vars, ops, result, raised>>

\* a mutant: the exception of a closed stream is kept as the stream error
StdoutClosedRecorded ==
    /\ pc = "streaming"
    /\ stream_error' = <<"BrokenPipeError">>
    /\ pc' = "post_stream"
    /\ UNCHANGED <<host_vars, call_vars, timeout, deadline, cursor_agent, proc_vars, consumed, acc_vars,
                   err_vars, ops, result, raised>>

\* lines 205-208: BrokenPipeError, ConnectionError, OSError while reading
StdoutClosed ==
    /\ pc = "streaming"
    /\ pc' = "post_stream"
    /\ UNCHANGED <<host_vars, call_vars, timeout, deadline, cursor_agent, proc_vars, in_vars, acc_vars,
                   err_vars, ops, result, raised>>

\* lines 209-212: another exception while reading (a line over the limit)
StdoutFailed ==
    /\ pc = "streaming"
    /\ stream_error' = <<"ValueError">>
    /\ pc' = "post_stream"
    /\ UNCHANGED <<host_vars, call_vars, timeout, deadline, cursor_agent, proc_vars, consumed, acc_vars,
                   err_vars, ops, result, raised>>

\* lines 152-157: read_stderr takes one line
ReadStderr ==
    /\ stderr_task = "running"
    /\ Len(stderr_output) < MaxErrLines
    /\ \E l \in StderrLines : stderr_output' = Append(stderr_output, l)
    /\ UNCHANGED <<host_vars, call_vars, pc, timeout, deadline, cursor_agent, proc_vars, in_vars, acc_vars,
                   stderr_task, ops, result, raised>>

\* line 156: stderr reaches end-of-stream
StderrEOF ==
    /\ stderr_task = "running"
    /\ stderr_task' = "done"
    /\ UNCHANGED <<host_vars, call_vars, pc, timeout, deadline, cursor_agent, proc_vars, in_vars, acc_vars,
                   stderr_output, ops, result, raised>>

\* lines 158-160: an exception while reading stderr ends the task
StderrFailed ==
    /\ stderr_task = "running"
    /\ stderr_task' = "done"
    /\ UNCHANGED <<host_vars, call_vars, pc, timeout, deadline, cursor_agent, proc_vars, in_vars, acc_vars,
                   stderr_output, ops, result, raised>>

\* the subprocess ends: by itself, or by the signal of process.kill()
ProcessExit ==
    /\ proc = "running"
    /\ proc' = "exited"
    /\ \E code \in ExitCodes \cup {KilledCode} :
        /\ (code = KilledCode) <=> (\E i \in 1..Len(ops) : ops[i] = "kill")
        /\ returncode' = <<code>>
    /\ UNCHANGED <<host_vars, call_vars, pc, timeout, deadline, cursor_agent, in_vars, acc_vars, err_vars,
                   ops, result, raised>>

\* a mutant: the timeout guards the wait for the process too
TimeoutArmedUntilExit(at) == at \in {"streaming", "post_stream", "wait_exit"}

\* lines 216-220: asyncio.wait_for guards process_stream alone
TimeoutArmed(at) == at = "streaming"

\* a mutant: the timer of wait_for cancels nothing
DeadlineElapsesUnnoticed ==
    /\ timeout # None
    /\ deadline = None
    /\ result = None
    /\ pc \in {"streaming", "post_stream", "wait_exit", "kill_lingering",
               "wait_killed", "finally", "stderr_grace", "classify"}
    /\ deadline' = <<[at |-> IF pc = "streaming" THEN "streaming" ELSE "after_stream",
                      proc |-> proc]>>
    /\ UNCHANGED <<host_vars, call_vars, pc, timeout, cursor_agent, proc_vars, in_vars, acc_vars,
                   err_vars, ops, result, raised>>

\* timeout seconds have passed since wait_for was entered (lines 217-220, 237)
DeadlineElapses ==
    /\ timeout # None
    /\ deadline = None
    /\ result = None
    /\ pc \in {"streaming", "post_stream", "wait_exit", "kill_lingering",
               "wait_killed", "finally", "stderr_grace", "classify"}
    /\ deadline' = <<[at |-> IF pc = "streaming" THEN "streaming" ELSE "after_stream",
                      proc |-> proc]>>
    /\ pc' = IF TimeoutArmed(pc) THEN "timed_out" ELSE pc
    /\ UNCHANGED <<host_vars, call_vars, timeout, cursor_agent, proc_vars, in_vars, acc_vars, err_vars,
                   ops, result, raised>>

\* a mutant: the process is killed and the result built without waiting for it
KillOnTimeoutNoWait ==
    /\ pc = "timed_out"
    /\ ops' = Append(ops, "kill")
    /\ result' = <<TimeoutResult(assistant_messages, events, session_id)>>
    /\ pc' = "finally"
    /\ UNCHANGED <<host_vars, call_vars, timeout, deadline, cursor_agent, proc_vars, in_vars, acc_vars,
                   err_vars, raised>>

\* lines 238-239: process.kill(), then process.wait() is awaited
KillOnTimeout ==
    /\ pc = "timed_out"
    /\ ops' = ops \o <<"kill", "wait">>
    /\ pc' = "timeout_wait"
    /\ UNCHANGED <<host_vars, call_vars, timeout, deadline, cursor_agent, proc_vars, in_vars, acc_vars,
                   err_vars, result, raised>>

\* a mutant: the result of a timeout is built without the process having ended
BuildTimeoutResultUnwaited ==
    /\ pc = "timeout_wait"
    /\ result' = <<TimeoutResult(assistant_messages, events, session_id)>>
    /\ pc' = "finally"
    /\ UNCHANGED <<host_vars, call_vars, timeout, deadline, cursor_agent, proc_vars, in_vars, acc_vars,
                   err_vars, ops, raised>>

\* lines 239-253: process.wait() returns and the result is built; the finally
\* block runs before it is returned
BuildTimeoutResult ==
    /\ pc = "timeout_wait"
    /\ proc = "exited"
    /\ result' = <<TimeoutResult(assistant_messages, events, session_id)>>
    /\ pc' = "finally"
    /\ UNCHANGED <<host_vars, call_vars, timeout, deadline, cursor_agent, proc_vars, in_vars, acc_vars,
                   err_vars, ops, raised>>

\* a mutant: the process is waited for whatever process.returncode says
CheckReturncodeAlwaysWaits ==
    /\ pc = "post_stream"
    /\ pc' = "wait_exit" /\ ops' = Append(ops, "wait_for_wait")
    /\ UNCHANGED <<host_vars, call_vars, timeout, deadline, cursor_agent, proc_vars, in_vars, acc_vars,
                   err_vars, result, raised>>

\* lines 224-235
CheckReturncode ==
    /\ pc = "post_stream"
    /\ IF returncode = None
       THEN pc' = "wait_exit" /\ ops' = Append(ops, "wait_for_wait")
       ELSE pc' = "finally" /\ ops' = ops
    /\ UNCHANGED <<host_vars, call_vars, timeout, deadline, cursor_agent, proc_vars, in_vars, acc_vars,
                   err_vars, result, raised>>

\* line 227: the process exits within the 10 seconds
WaitReturns ==
    /\ pc = "wait_exit"
    /\ proc = "exited"
    /\ pc' = "finally"
    /\ UNCHANGED <<host_vars, call_vars, timeout, deadline, cursor_agent, proc_vars, in_vars, acc_vars,
                   err_vars, ops, result, raised>>

\* line 228: the 10 seconds pass
WaitTimesOut ==
    /\ pc = "wait_exit"
    /\ proc = "running"
    /\ pc' = "kill_lingering"
    /\ UNCHANGED <<host_vars, call_vars, timeout, deadline, cursor_agent, proc_vars, in_vars, acc_vars,
                   err_vars, ops, result, raised>>

\* lines 230-232
KillLingering ==
    /\ pc = "kill_lingering"
    /\ ops' = ops \o <<"kill", "wait">>
    /\ pc' = "wait_killed"
    /\ UNCHANGED <<host_vars, call_vars, timeout, deadline, cursor_agent, proc_vars, in_vars, acc_vars,
                   err_vars, result, raised>>

\* line 232: process.wait() returns
KilledWaitReturns ==
    /\ pc = "wait_killed"
    /\ proc = "exited"
    /\ pc' = "finally"
    /\ UNCHANGED <<host_vars, call_vars, timeout, deadline, cursor_agent, proc_vars, in_vars, acc_vars,
                   err_vars, ops, result, raised>>

\* where the function goes after the finally block: the return of line 246 when
\* a result is pending, line 275 otherwise
AfterFinally == IF result # None THEN "done" ELSE "classify"

\* lines 254-260
Finally ==
    /\ pc = "finally"
    /\ pc' = IF stderr_task = "done" THEN AfterFinally ELSE "stderr_grace"
    /\ UNCHANGED <<host_vars, call_vars, timeout, deadline, cursor_agent, proc_vars, in_vars, acc_vars,
                   err_vars, ops, result, raised>>

\* line 260: stderr_task ends within the 2 seconds
StderrGraceEnds ==
    /\ pc = "stderr_grace"
    /\ stderr_task = "done"
    /\ pc' = AfterFinally
    /\ UNCHANGED <<host_vars, call_vars, timeout, deadline, cursor_agent, proc_vars, in_vars, acc_vars,
                   err_vars, ops, result, raised>>

\* a mutant: stderr_task is awaited without a time limit
StderrGraceUnbounded ==
    /\ pc = "stderr_grace"
    /\ stderr_task = "done"
    /\ pc' = AfterFinally
    /\ UNCHANGED <<host_vars, call_vars, timeout, deadline, cursor_agent, proc_vars, in_vars, acc_vars,
                   err_vars, ops, result, raised>>

\* lines 261-269: the 2 seconds pass and stderr_task is cancelled
StderrGraceTimesOut ==
    /\ pc = "stderr_grace"
    /\ stderr_task = "running"
    /\ stderr_task' = "cancelled"
    /\ pc' = AfterFinally
    /\ UNCHANGED <<host_vars, call_vars, timeout, deadline, cursor_agent, proc_vars, in_vars, acc_vars,
                   stderr_output, ops, result, raised>>

\* a mutant: a process the runner killed is classified as a clean exit
ClassifyKilledAsClean ==
    /\ pc = "classify"
    /\ result' = <<ClassifyResult(assistant_messages, stderr_output, stream_error,
                                  IF \E i \in 1..Len(ops) : ops[i] = "kill"
                                  THEN 0 ELSE returncode[1],
                                  events, session_id, duration_ms)>>
    /\ pc' = "done"
    /\ UNCHANGED <<host_vars, call_vars, timeout, deadline, cursor_agent, proc_vars, in_vars, acc_vars,
                   err_vars, ops, raised>>

\* lines 275-354
Classify ==
    /\ pc = "classify"
    /\ result' = <<ClassifyResult(assistant_messages, stderr_output, stream_error,
                                  returncode[1], events, session_id, duration_ms)>>
    /\ pc' = "done"
    /\ UNCHANGED <<host_vars, call_vars, timeout, deadline, cursor_agent, proc_vars, in_vars, acc_vars,
                   err_vars, ops, raised>>

Next ==
    \/ GetLogger \/ FindCursorAgent \/ CreateSubprocess
    \/ ReadStdout \/ StdoutEOF \/ StdoutClosed \/ StdoutFailed
    \/ ReadStderr \/ StderrEOF \/ StderrFailed
    \/ ProcessExit \/ DeadlineElapses
    \/ KillOnTimeout \/ BuildTimeoutResult
    \/ CheckReturncode \/ WaitReturns \/ WaitTimesOut \/ KillLingering
    \/ KilledWaitReturns
    \/ Finally \/ StderrGraceEnds \/ StderrGraceTimesOut \/ Classify

Spec == Init /\ [][Next]_vars

(***************************************************************************)
(* The same invocation under the scheduling of the event loop, from the    *)
(* end of stdout to the end of the finally block: a coroutine whose await  *)
(* has completed is resumed, the timers of asyncio.wait_for (lines 227 and *)
(* 260) fire when their delay has passed, and a process sent SIGKILL by    *)
(* process.kill() ends.  Nothing is assumed of what the subprocess does by *)
(* itself: it may never exit and never close stderr.  The subprocess       *)
(* writes to stderr alone: what stdout held has no part in these lines.    *)
(***************************************************************************)
Killed == \E i \in 1..Len(ops) : ops[i] = "kill"

\* a step of the coroutine in lines 222-269
Resumed ==
    \/ CheckReturncode \/ WaitReturns \/ WaitTimesOut \/ KillLingering
    \/ KilledWaitReturns \/ Finally \/ StderrGraceEnds \/ StderrGraceTimesOut

QuietNext ==
    \/ GetLogger \/ FindCursorAgent \/ CreateSubprocess
    \/ StdoutEOF \/ StdoutClosed \/ StdoutFailed
    \/ ReadStderr \/ StderrEOF \/ StderrFailed
    \/ ProcessExit \/ DeadlineElapses
    \/ KillOnTimeout \/ BuildTimeoutResult
    \/ CheckReturncode \/ WaitReturns \/ WaitTimesOut \/ KillLingering
    \/ KilledWaitReturns
    \/ Finally \/ StderrGraceEnds \/ StderrGraceTimesOut \/ Classify

FairSpec == Init /\ [][QuietNext]_vars /\ (WF_vars(Resumed) /\ WF_vars(Killed /\ ProcessExit))

(***************************************************************************)
(* The whole of lines 214-354 under the scheduling of the event loop: the  *)
(* timer of the wait_for of line 217 fires too when a timeout was given,   *)
(* and the coroutine goes on through the timeout handler and the           *)
(* classifier to its return.                                               *)
(***************************************************************************)
\* a step of the coroutine from the wait_for of line 217 to a return
Returning ==
    \/ Resumed
    \/ (pc = "streaming" /\ DeadlineElapses)
    \/ KillOnTimeout \/ BuildTimeoutResult \/ Classify

ReturnSpec == Init /\ [][QuietNext]_vars /\ (WF_vars(Returning) /\ WF_vars(Killed /\ ProcessExit))

(***************************************************************************)
(* An invocation whose pipes break: reading stdout ends by a               *)
(* BrokenPipeError, a ConnectionError or another OSError, and reading      *)
(* stderr, when it ends, ends by an exception.                             *)
(***************************************************************************)
BrokenNext ==
    \/ GetLogger \/ FindCursorAgent \/ CreateSubprocess
    \/ ReadStdout \/ StdoutClosed
    \/ ReadStderr \/ StderrFailed
    \/ ProcessExit \/ DeadlineElapses
    \/ KillOnTimeout \/ BuildTimeoutResult
    \/ CheckReturncode \/ WaitReturns \/ WaitTimesOut \/ KillLingering
    \/ KilledWaitReturns
    \/ Finally \/ StderrGraceEnds \/ StderrGraceTimesOut \/ Classify

BrokenSpec == Init /\ [][BrokenNext]_vars

(***************************************************************************)
(* An invocation whose subprocess writes every kind of event to stdout and *)
(* nothing to stderr.                                                      *)
(***************************************************************************)
StreamNext ==
    \/ GetLogger \/ FindCursorAgent \/ CreateSubprocess
    \/ ReadStdoutAll \/ StdoutEOF \/ StdoutClosed \/ StdoutFailed
    \/ StderrEOF \/ StderrFailed
    \/ ProcessExit \/ DeadlineElapses
    \/ KillOnTimeout \/ BuildTimeoutResult
    \/ CheckReturncode \/ WaitReturns \/ WaitTimesOut \/ KillLingering
    \/ KilledWaitReturns
    \/ Finally \/ StderrGraceEnds \/ StderrGraceTimesOut \/ Classify

StreamSpec == Init /\ [][StreamNext]_vars

(***************************************************************************)
(* StreamEvent.from_json called by itself, on every kind of line.          *)
(***************************************************************************)
\* the lines from_json is given: for an object, every choice of the keys read
ParseLines ==
    { Line(j, None, None, None, None, <<>>) : j \in ({"blank", "invalid", "other", "object"}) \ {"object"} }
    \cup
    { Line("object", t, st, sid, ms, <<>>) :
        t \in {None} \cup {<<e>> : e \in ({"system", "assistant", "result", "tool_call", "thinking"})},
        st \in {None} \cup {<<u>> : u \in ({"init", "success", "started"})},
        sid \in {None, <<"s1">>},
        ms \in {None, <<5>>} }

ParseInit ==
    /\ HostIdle
    /\ pc = "from_json"
    /\ arg \in ParseLines
    /\ ret = None
    /\ timeout = None
    /\ deadline = None
    /\ cursor_agent = None
    /\ proc = "none"
    /\ returncode = None
    /\ consumed = <<>>
    /\ events = <<>>
    /\ assistant_messages = <<>>
    /\ session_id = None
    /\ duration_ms = None
    /\ stream_error = None
    /\ stderr_task = "none"
    /\ stderr_output = <<>>
    /\ ops = <<>>
    /\ result = None
    /\ raised = None
    /\ frames = None
    /\ logger = None

\* models.py lines 16-26: the call returns or raises
FromJson ==
    /\ pc = "from_json"
    /\ ret' = <<from_json(arg)>>
    /\ pc' = "parsed"
    /\ UNCHANGED <<host_vars, arg, frames, logger, timeout, deadline, cursor_agent, proc_vars, in_vars,
                   acc_vars, err_vars, ops, result, raised>>

ParseSpec == ParseInit /\ [][FromJson]_vars

(***************************************************************************)
(* extract_final_json called by itself.  The texts are those an agent      *)
(* writes: fenced blocks with and without the label json and raw           *)
(* fragments, each holding an object, an array, a scalar or malformed      *)
(* JSON; and every text of brackets up to a length.                        *)
(***************************************************************************)
Fragments == { <<"{", "m", "}">>, <<"[", "v", "]">>, <<"v">>, <<"{", "p">> }

Segments ==
    { <<"F", "J", "n">> \o c \o <<"n", "F">> : c \in Fragments }
    \cup { <<"F", "n">> \o c \o <<"n", "F">> : c \in Fragments }
    \cup Fragments

ExtractTexts ==
    { join(ss) : ss \in UNION { [1..k -> Segments] : k \in 0..MaxSegments } }
    \cup UNION { [1..k -> ({"{", "}", "[", "]", "m"})] : k \in 0..MaxBrackets }

ExtractInit ==
    /\ HostIdle
    /\ pc = "extract"
    /\ arg \in ExtractTexts
    /\ ret = None
    /\ timeout = None
    /\ deadline = None
    /\ cursor_agent = None
    /\ proc = "none"
    /\ returncode = None
    /\ consumed = <<>>
    /\ events = <<>>
    /\ assistant_messages = <<>>
    /\ session_id = None
    /\ duration_ms = None
    /\ stream_error = None
    /\ stderr_task = "none"
    /\ stderr_output = <<>>
    /\ ops = <<>>
    /\ result = None
    /\ raised = None
    /\ frames = None
    /\ logger = None

\* utils.py lines 26-87: the call returns
ExtractFinalJson ==
    /\ pc = "extract"
    /\ ret' = <<extract_final_json(arg)>>
    /\ pc' = "extracted"
    /\ UNCHANGED <<host_vars, arg, frames, logger, timeout, deadline, cursor_agent, proc_vars, in_vars,
                   acc_vars, err_vars, ops, result, raised>>

\* the string the call returned is given to extract_final_json in its turn
ExtractAgain ==
    /\ pc = "extracted"
    /\ ret[1] # None
    /\ arg' = ret[1][1]
    /\ ret' = <<extract_final_json(ret[1][1])>>
    /\ pc' = "re_extracted"
    /\ UNCHANGED <<host_vars, frames, logger, timeout, deadline, cursor_agent, proc_vars, in_vars,
                   acc_vars, err_vars, ops, result, raised>>

ExtractSpec == ExtractInit /\ [][ExtractFinalJson \/ ExtractAgain]_vars

(***************************************************************************)
(* Two invocations of invoke_cursor_agent on one event loop.  A list of    *)
(* Python is an object: frames.lists holds the list objects there are, and *)
(* the locals events and assistant_messages of an invocation name one of   *)
(* them each.  The subprocess of each invocation writes lines of its own.  *)
(***************************************************************************)
\* the single invocation of the other specifications is not running
RunnerIdle ==
    /\ timeout = None
    /\ deadline = None
    /\ cursor_agent = None
    /\ proc = "none"
    /\ returncode = None
    /\ consumed = <<>>
    /\ events = <<>>
    /\ assistant_messages = <<>>
    /\ session_id = None
    /\ duration_ms = None
    /\ stream_error = None
    /\ stderr_task = "none"
    /\ stderr_output = <<>>
    /\ ops = <<>>
    /\ result = None
    /\ raised = None

Invocations == 1..2

\* what the subprocess of invocation i writes to stdout
PairLines(i) ==
    IF i = 1
    THEN { InitLine("s1"), AssistantLine(<<TextBlock(ShortText)>>), ResultLine(5) }
    ELSE { InitLine("s2"), AssistantLine(<<TextBlock(LongJson)>>), ResultLine(7) }

\* the locals of an invocation
Frame(at, lines, ev, msgs, sid, dur, res) ==
    [pc |-> at, consumed |-> lines, events |-> ev, assistant_messages |-> msgs,
     session_id |-> sid, duration_ms |-> dur, result |-> res]

PairInit ==
    /\ HostIdle
    /\ pc = "pair"
    /\ frames = [lists |-> <<>>,
                 of |-> [i \in Invocations |-> Frame("idle", <<>>, 0, 0, None, None, None)]]
    /\ arg = None
    /\ ret = None
    /\ logger = None
    /\ RunnerIdle

\* a mutant: the two lists are made once and every invocation names them
EnterShared(i) ==
    /\ frames.of[i].pc = "idle"
    /\ frames' = [lists |-> IF frames.lists = <<>> THEN <<<<>>, <<>>>> ELSE frames.lists,
                  of |-> [frames.of EXCEPT ![i] =
                            Frame("streaming", <<>>, 1, 2, None, None, None)]]
    /\ UNCHANGED <<host_vars, pc, arg, ret, logger, timeout, deadline, cursor_agent, proc_vars, in_vars,
                   acc_vars, err_vars, ops, result, raised>>

\* lines 134-138: each list display makes a new list
Enter(i) ==
    /\ frames.of[i].pc = "idle"
    /\ frames' = [lists |-> frames.lists \o <<<<>>, <<>>>>,
                  of |-> [frames.of EXCEPT ![i] =
                            Frame("streaming", <<>>, Len(frames.lists) + 1,
                                  Len(frames.lists) + 2, None, None, None)]]
    /\ UNCHANGED <<host_vars, pc, arg, ret, logger, timeout, deadline, cursor_agent, proc_vars, in_vars,
                   acc_vars, err_vars, ops, result, raised>>

\* lines 176-204: process_stream of invocation i takes one line
PairReadStdout(i) ==
    /\ frames.of[i].pc = "streaming"
    /\ Len(frames.of[i].consumed) < MaxLines
    /\ \E line \in PairLines(i) :
        LET f == frames.of[i]
            acc == process_line(
                     Accumulated(frames.lists[f.events], frames.lists[f.assistant_messages],
                                 f.session_id, f.duration_ms),
                     line)
        IN  frames' = [lists |-> [frames.lists EXCEPT
                                    ![f.events] = acc.events,
                                    ![f.assistant_messages] = acc.assistant_messages],
                       of |-> [frames.of EXCEPT ![i] =
                                 Frame("streaming", Append(f.consumed, line), f.events,
                                       f.assistant_messages, acc.session_id,
                                       acc.duration_ms, None)]]
    /\ UNCHANGED <<host_vars, pc, arg, ret, logger, timeout, deadline, cursor_agent, proc_vars, in_vars,
                   acc_vars, err_vars, ops, result, raised>>

\* stdout of invocation i has ended and its process exited with code 0 and an
\* empty stderr: lines 275-354 build the result
PairClassify(i) ==
    /\ frames.of[i].pc = "streaming"
    /\ LET f == frames.of[i]
       IN  frames' = [frames EXCEPT !.of[i] =
                        Frame("done", f.consumed, f.events, f.assistant_messages,
                              f.session_id, f.duration_ms,
                              <<ClassifyResult(frames.lists[f.assistant_messages], <<>>, None,
                                               0, frames.lists[f.events], f.session_id,
                                               f.duration_ms)>>)]
    /\ UNCHANGED <<host_vars, pc, arg, ret, logger, timeout, deadline, cursor_agent, proc_vars, in_vars,
                   acc_vars, err_vars, ops, result, raised>>

PairSpec == PairInit /\ [][(\E i \in Invocations : Enter(i) \/ PairReadStdout(i) \/ PairClassify(i))]_vars

(***************************************************************************)
(* runner.py lines 275-354: the classifier by itself, on assistant texts   *)
(* around the threshold of the useful output.                              *)
(***************************************************************************)
ClassifyInit ==
    /\ HostIdle
    /\ pc = "classifier"
    /\ arg \in ([text : ({ <<"P">>, <<"P", "c">>, <<"n", "P", "n">>, <<"n", "P", "c", "n">>,
      <<"P", "{", "m", "}">>, LongJson, <<"{", "m", "}">>, <<>> }),
     stderr : {<<>>} \cup { <<l>> : l \in StderrLines \cup {"Premature close"} },
     code : ExitCodes \cup {KilledCode},
     stream_error : {None, <<"ValueError">>}])
    /\ ret = None
    /\ frames = None
    /\ logger = None
    /\ RunnerIdle

\* lines 275-354
ClassifyCall ==
    /\ pc = "classifier"
    /\ ret' = <<ClassifyResult(IF arg.text = <<>> THEN <<>> ELSE <<arg.text>>, arg.stderr,
                               arg.stream_error, arg.code, <<>>, None, None)>>
    /\ pc' = "classified"
    /\ UNCHANGED <<host_vars, arg, frames, logger, timeout, deadline, cursor_agent, proc_vars, in_vars,
                   acc_vars, err_vars, ops, result, raised>>

ClassifySpec == ClassifyInit /\ [][ClassifyCall]_vars

(***************************************************************************)
(* cli.py: find_cursor_agent called by itself, for every PATH lookup and   *)
(* every file system.                                                      *)
(***************************************************************************)
\* a directory the caller may enter: os.access says yes, os.path.isfile no
Directory == [isfile |-> FALSE, x_ok |-> TRUE]

CliInit ==
    /\ HostIdle
    /\ pc = "find_cursor_agent"
    /\ arg \in ([which : {None, <<"/usr/bin/cursor-agent">>},
     files : [1..Len(common_paths) -> {NoFile, PlainFile, ExecFile, Directory}]])
    /\ ret = None
    /\ frames = None
    /\ logger = None
    /\ RunnerIdle

\* cli.py lines 8-36: the call returns
FindCursorAgentCall ==
    /\ pc = "find_cursor_agent"
    /\ ret' = <<find_cursor_agent(arg.which, arg.files)>>
    /\ pc' = "found"
    /\ UNCHANGED <<host_vars, arg, frames, logger, timeout, deadline, cursor_agent, proc_vars, in_vars,
                   acc_vars, err_vars, ops, result, raised>>

CliSpec == CliInit /\ [][FindCursorAgentCall]_vars

(***************************************************************************)
(* runner.py lines 101-150: the prompt and the command line, for every     *)
(* choice of the arguments.  A text is a sequence of tokens, "n" a         *)
(* newline; the two headings are one token each.                           *)
(***************************************************************************)
\* the heading of the context section and the heading of the task section
ContextHeader == "## CONTEXT"
TaskHeader == "## TASK"

\* "\n".join(parts)
RECURSIVE join_lines(_)
join_lines(parts) ==
    IF parts = <<>> THEN <<>>
    ELSE IF Len(parts) = 1 THEN parts[1]
    ELSE parts[1] \o <<"n">> \o join_lines(Tail(parts))

\* a mutant: the context section is written whatever the context
full_prompt_parts_context_always(system_prompt, task, context) ==
    <<system_prompt>>
    \o <<<<"n", "n", ContextHeader, "n", "n">> \o context>>
    \o <<<<"n", "n", TaskHeader, "n", "n">> \o task>>

\* lines 102-105
full_prompt_parts(system_prompt, task, context) ==
    <<system_prompt>>
    \o (IF context # <<>> THEN <<<<"n", "n", ContextHeader, "n", "n">> \o context>> ELSE <<>>)
    \o <<<<"n", "n", TaskHeader, "n", "n">> \o task>>

\* line 106
full_prompt(system_prompt, task, context) ==
    join_lines(full_prompt_parts(system_prompt, task, context))

\* a mutant: the workspace argument is not looked at
workspace_to_use_always_cwd(workspace, cwd) == cwd

\* line 109: workspace or cwd, for workspace None or <<a string>>
workspace_to_use(workspace, cwd) ==
    IF workspace # None /\ workspace[1] # "" THEN workspace[1] ELSE cwd

\* lines 124-132
cmd(path, model, workspace, cwd, prompt) ==
    <<path, "--print", "--output-format", "stream-json", "--model", model,
      "--workspace", workspace_to_use(workspace, cwd), "-f", prompt>>

CommandInit ==
    /\ HostIdle
    /\ pc = "command"
    /\ arg \in ([system_prompt : {<<>>, <<"P">>},
     task : {<<"p">>, <<"p", "n", "p">>},
     context : ({ <<>>, <<"p">>, <<"p", "n", "p">> }) \cup {<<" ">>},
     model : {"auto"},
     cwd : {"/project", "/workspace"},
     workspace : {None, <<"">>, <<"/workspace">>}])
    /\ ret = None
    /\ frames = None
    /\ logger = None
    /\ RunnerIdle

\* lines 101-150: the call of create_subprocess_exec that is made
SpawnCommand ==
    /\ pc = "command"
    /\ ret' = <<[cmd |-> cmd("/usr/bin/cursor-agent", arg.model, arg.workspace, arg.cwd,
                             full_prompt(arg.system_prompt, arg.task, arg.context)),
                 cwd |-> arg.cwd]>>
    /\ pc' = "spawned"
    /\ UNCHANGED <<host_vars, arg, frames, logger, timeout, deadline, cursor_agent, proc_vars, in_vars,
                   acc_vars, err_vars, ops, result, raised>>

CommandSpec == CommandInit /\ [][SpawnCommand]_vars

(***************************************************************************)
(* tools/invoke.py: invoke_subagent, for every choice of its arguments and *)
(* of what it finds.  Every agent of the configuration is an AgentConfig   *)
(* as parse_agent_file builds it (config.py lines 14-26 and 138-146).      *)
(***************************************************************************)
AgentConfig(role, default_model) ==
    [name |-> role, description |-> "", default_model |-> default_model, role |-> role,
     invocation_rules |-> "", prompt |-> "system prompt", file_path |-> "agents/analyst.md"]

\* the mapping invoke_subagent returns
ToolResult(success, output, error, agent_role, model_used, sid, dur) ==
    [success |-> success, output |-> output, error |-> error, agent_role |-> agent_role,
     model_used |-> model_used, session_id |-> sid, duration_ms |-> dur]

\* the mapping of lines 70-78, 85-93 and 102-110
ToolFailure(error, agent_role, model_used) ==
    ToolResult(FALSE, <<>>, error, agent_role, model_used, None, None)

InvokeInit ==
    /\ HostIdle
    /\ pc = "check_available"
    /\ arg \in ([available : BOOLEAN,                   \* check_cursor_agent_available
     agent_role : {"analyst", "unknown"},
     model : {None, <<"gpt-5">>},
     default_model : {"auto", "claude"},    \* of the one agent of the configuration
     prompt_exists : BOOLEAN,               \* whether load_prompt_file finds its file
     outcome : {ExecutionResult(TRUE, ShortText, None, 0, <<>>, <<"s1">>, <<5>>),
                ExecutionResult(FALSE, <<>>, <<ErrorPart("exit_code", <<>>, 1)>>, 1, <<>>,
                                None, None)}])  \* what invoke_cursor_agent would return
    /\ ret = None
    /\ frames = None
    /\ logger = None
    /\ RunnerIdle

\* the agents of get_config()
Agents == [r \in {"analyst"} |-> AgentConfig(r, arg.default_model)]

\* lines 67-78
CheckAvailable ==
    /\ pc = "check_available"
    /\ ops' = Append(ops, "check_cursor_agent_available")
    /\ IF ~arg.available
       THEN /\ ret' = <<ToolFailure(<<"cursor-agent CLI not found">>, arg.agent_role, None)>>
            /\ pc' = "returned"
       ELSE ret' = ret /\ pc' = "validate_role"
    /\ UNCHANGED <<host_vars, arg, frames, logger, timeout, deadline, cursor_agent, proc_vars, in_vars,
                   acc_vars, err_vars, result, raised>>

\* lines 80-93
ValidateRole ==
    /\ pc = "validate_role"
    /\ ops' = Append(ops, "get_config")
    /\ IF arg.agent_role \notin DOMAIN Agents
       THEN /\ ret' = <<ToolFailure(<<"Unknown agent role">>, arg.agent_role, None)>>
            /\ pc' = "returned"
       ELSE ret' = ret /\ pc' = "load_prompt"
    /\ UNCHANGED <<host_vars, arg, frames, logger, timeout, deadline, cursor_agent, proc_vars, in_vars,
                   acc_vars, err_vars, result, raised>>

\* lines 95-131: the attribute prompt_file of the agent is read, the prompt
\* loaded, invoke_cursor_agent awaited and its result returned
LoadPromptAndInvoke ==
    /\ pc = "load_prompt"
    /\ LET agent == Agents[arg.agent_role]
           model_to_use == IF arg.model # None THEN arg.model[1] ELSE agent.default_model
       IN  IF "prompt_file" \notin DOMAIN agent
           THEN /\ raised' = <<"AttributeError">>
                /\ pc' = "raised"
                /\ UNCHANGED <<ret, ops>>
           ELSE IF ~arg.prompt_exists
           THEN /\ ret' = <<ToolFailure(<<"Prompt file not found">>, arg.agent_role,
                                        <<model_to_use>>)>>
                /\ ops' = Append(ops, "load_prompt_file")
                /\ pc' = "returned"
                /\ raised' = raised
           ELSE /\ ret' = <<ToolResult(arg.outcome.success, arg.outcome.output,
                                       arg.outcome.error, arg.agent_role, <<model_to_use>>,
                                       arg.outcome.session_id, arg.outcome.duration_ms)>>
                /\ ops' = ops \o <<"load_prompt_file", "invoke_cursor_agent">>
                /\ pc' = "returned"
                /\ raised' = raised
    /\ UNCHANGED <<host_vars, arg, frames, logger, timeout, deadline, cursor_agent, proc_vars, in_vars,
                   acc_vars, err_vars, result>>

InvokeSpec == InvokeInit /\ [][(CheckAvailable \/ ValidateRole \/ LoadPromptAndInvoke)]_vars

(***************************************************************************)
(* logging.py: the callers of get_logger in one process.  get_logger has   *)
(* no await and the package starts no thread: a call is one step.          *)
(***************************************************************************)
\* how many coroutines call get_logger
MaxCallers == 4

Callers == 1..MaxCallers

\* lines 21-71, on the handlers of logging.getLogger("cursor_subagent"): the
\* handlers it leaves, or the exception of mkdir
setup_logger(handlers, env) ==
    IF handlers # <<>> THEN [raised |-> FALSE, handlers |-> handlers]
    ELSE IF env.log_env = "unset" THEN [raised |-> FALSE, handlers |-> <<>>]
    ELSE IF ~env.mkdir_ok THEN [raised |-> TRUE, handlers |-> <<>>]
    ELSE IF env.file_ok THEN [raised |-> FALSE, handlers |-> <<"FileHandler">>]
    ELSE [raised |-> FALSE, handlers |-> <<"StreamHandler">>]

LoggerInit ==
    /\ HostIdle
    /\ pc = "logging"
    /\ \E env \in ([log_env : {"unset", "true", "/var/log/agents/a.log"},
     mkdir_ok : BOOLEAN, file_ok : BOOLEAN]) :
        logger = [env |-> env,
                  cached |-> None,      \* the global _logger
                  handlers |-> <<>>,
                  setups |-> 0,         \* the calls of _setup_logger made
                  got |-> [c \in Callers |-> "pending"]]
    /\ arg = None
    /\ ret = None
    /\ frames = None
    /\ RunnerIdle

\* lines 13-18: caller c calls get_logger
GetLoggerCall(c) ==
    /\ logger.got[c] = "pending"
    /\ IF logger.cached # None
       THEN logger' = [logger EXCEPT !.got[c] = logger.cached[1]]
       ELSE LET r == setup_logger(logger.handlers, logger.env)
            IN  logger' = [logger EXCEPT
                             !.setups = @ + 1,
                             !.handlers = r.handlers,
                             !.cached = IF r.raised THEN None ELSE <<"cursor_subagent">>,
                             !.got[c] = IF r.raised THEN "OSError" ELSE "cursor_subagent"]
    /\ UNCHANGED <<host_vars, pc, arg, ret, frames, timeout, deadline, cursor_agent, proc_vars, in_vars,
                   acc_vars, err_vars, ops, result, raised>>

LoggerSpec == LoggerInit /\ [][\E c \in Callers : GetLoggerCall(c)]_vars

(***************************************************************************)
(* get_config called by itself.  Two functions have the name: the one of   *)
(* config.py, which the tools import, and the one of server.py.  The agent *)
(* files may change between two calls (tools/create_agent.py writes one).  *)
(***************************************************************************)
MaxCalls == 3

\* the role names the .md files of the agents directory can give
AgentFiles == SUBSET {"developer", "analyst"}

\* a Config object: which object it is, and the agents it holds
Config(id, agents) == [id |-> id, agents |-> agents]

\* config.py lines 151-187: the n-th call builds a new Config from the files
load_config(n, files) == Config(n, files)

ConfigInit ==
    /\ pc = "get_config"
    /\ arg \in {"config", "server"}
    /\ ret = None
    /\ frames = None
    /\ logger = None
    /\ agents_dir \in AgentFiles
    /\ _config = None
    /\ load_config_calls = 0
    /\ shell_config = None
    /\ steps_output = <<>>
    /\ install_calls = 0
    /\ RunnerIdle

\* a mutant: get_config of config.py keeps the Config of its first call
GetConfigCallCached ==
    /\ pc = "get_config"
    /\ arg = "config"
    /\ Len(ops) < MaxCalls
    /\ IF _config = None
       THEN /\ load_config_calls' = load_config_calls + 1
            /\ _config' = <<load_config(load_config_calls', agents_dir)>>
       ELSE UNCHANGED <<load_config_calls, _config>>
    /\ ret' = _config'
    /\ ops' = Append(ops, [on_disk |-> agents_dir, returned |-> ret'[1]])
    /\ UNCHANGED <<pc, arg, frames, logger, agents_dir, shell_config, steps_output, install_calls,
                   timeout, deadline, cursor_agent, proc_vars, in_vars, acc_vars,
                   err_vars, result, raised>>

\* config.py lines 205-207
GetConfigCall ==
    /\ pc = "get_config"
    /\ arg = "config"
    /\ Len(ops) < MaxCalls
    /\ load_config_calls' = load_config_calls + 1
    /\ ret' = <<load_config(load_config_calls', agents_dir)>>
    /\ ops' = Append(ops, [on_disk |-> agents_dir, returned |-> ret'[1]])
    /\ UNCHANGED <<pc, arg, frames, logger, agents_dir, _config, shell_config,
                   steps_output, install_calls, timeout, deadline, cursor_agent, proc_vars, in_vars,
                   acc_vars, err_vars, result, raised>>

\* server.py lines 29-34
ServerGetConfigCall ==
    /\ pc = "get_config"
    /\ arg = "server"
    /\ Len(ops) < MaxCalls
    /\ IF _config = None
       THEN /\ load_config_calls' = load_config_calls + 1
            /\ _config' = <<load_config(load_config_calls', agents_dir)>>
       ELSE UNCHANGED <<load_config_calls, _config>>
    /\ ret' = _config'
    /\ ops' = Append(ops, [on_disk |-> agents_dir, returned |-> ret'[1]])
    /\ UNCHANGED <<pc, arg, frames, logger, agents_dir, shell_config, steps_output, install_calls,
                   timeout, deadline, cursor_agent, proc_vars, in_vars, acc_vars,
                   err_vars, result, raised>>

\* an agent file is written or removed between two calls
AgentsDirChanges ==
    /\ pc = "get_config"
    /\ \E files \in AgentFiles \ {agents_dir} : agents_dir' = files
    /\ UNCHANGED <<pc, arg, ret, frames, logger, _config, load_config_calls,
                   shell_config, steps_output, install_calls, timeout, deadline, cursor_agent,
                   proc_vars, in_vars, acc_vars, err_vars, ops, result, raised>>

ConfigSpec == ConfigInit /\ [][(GetConfigCall \/ ServerGetConfigCall \/ AgentsDirChanges)]_vars

(***************************************************************************)
(* install_cursor_cli called by itself, any number of times in a row.  A   *)
(* step is what the coroutine does between two awaits together with what   *)
(* the awaited subprocess did.  A file is the sequence of its lines.       *)
(***************************************************************************)
MaxRuns == 3

\* installer.py line 97
PathExport == "export PATH=\"$HOME/.local/bin:$PATH\""

\* lines 114-116: what is appended to a file that ended with a newline
InstallerBlock == <<"", "# Added by cursor-subagent-mcp installer", PathExport>>

File(lines) == <<lines>>

FileLines(file) == IF file = None THEN <<>> ELSE file[1]

\* the files a user may have before the first run
InitialFiles ==
    { None,
      File(<<"# Original config">>),
      File(<<"# Original config", PathExport>>),
      File(<<"# tools of ~/.local/bin">>) }

\* lines 102-107: ".local/bin" in content, for the lines a file holds here
already_configured(file) ==
    /\ file # None
    /\ \E k \in 1..Len(file[1]) : file[1][k] \in {PathExport, "# tools of ~/.local/bin"}

\* shell.py lines 27-39, with detect_shell (lines 6-24) in its place
get_shell_config_file(shell, files) ==
    LET detected == IF shell = "/bin/zsh" THEN "zsh"
                    ELSE IF shell = "/bin/bash" THEN "bash"
                    ELSE IF files.zshrc # None THEN "zsh"
                    ELSE IF files.bashrc # None THEN "bash"
                    ELSE "unknown"
    IN  IF detected = "zsh" THEN "zshrc" ELSE "bashrc"

\* an entry of steps_output: the sign it starts with ("ok" for the check
\* mark, "warn" for the warning sign, "none") and its text
OutputLine(mark, text) == [mark |-> mark, text |-> text]

Step1Line == OutputLine("none", "Step 1: Downloading and installing Cursor CLI...")
InstalledLine == OutputLine("ok", "Cursor CLI installed successfully")
\* the ExecutionResult of install_cursor_cli; output is "\n".join of the lines
InstallerResult(success, output, error, return_code) ==
    [success |-> success, output |-> output, error |-> error,
     return_code |-> return_code]

InstallerInit ==
    /\ pc = "idle"
    /\ arg \in [SHELL : ({"/bin/zsh", "/bin/bash", "/usr/bin/fish", ""}), zshrc : InitialFiles, bashrc : InitialFiles]
    /\ shell_config = [zshrc |-> arg.zshrc, bashrc |-> arg.bashrc]
    /\ steps_output = <<>>
    /\ install_calls = 0
    /\ ret = None
    /\ frames = None
    /\ logger = None
    /\ agents_dir = None
    /\ _config = None
    /\ load_config_calls = 0
    /\ RunnerIdle

\* lines 21-91: the installation script is run
InstallStep ==
    /\ pc = "idle"
    /\ install_calls < MaxRuns
    /\ install_calls' = install_calls + 1
    /\ \E outcome \in {"ok", "nonzero", "timeout", "raises"} :
        /\ ops' = <<[step |-> "install", outcome |-> outcome]>>
        /\ CASE outcome = "ok" ->
                  /\ steps_output' = <<Step1Line, OutputLine("none", "stdout_clean"),
                                       InstalledLine>>
                  /\ ret' = None
                  /\ pc' = "path"
             [] outcome = "nonzero" ->
                  /\ steps_output' = <<Step1Line>>
                  /\ ret' = <<InstallerResult(FALSE,
                                 <<Step1Line, OutputLine("none", ""),
                                   OutputLine("none", "stdout_clean")>>,
                                 <<"Installation failed: stderr">>, 1)>>
                  /\ pc' = "idle"
             [] outcome = "timeout" ->
                  /\ steps_output' = <<Step1Line>>
                  /\ ret' = <<InstallerResult(FALSE, <<Step1Line>>,
                                 <<"Installation timed out after 120 seconds">>, -1)>>
                  /\ pc' = "idle"
             [] OTHER ->
                  /\ steps_output' = <<Step1Line>>
                  /\ ret' = <<InstallerResult(FALSE, <<Step1Line>>,
                                 <<"Installation error: OSError">>, -1)>>
                  /\ pc' = "idle"
    /\ UNCHANGED <<arg, frames, logger, agents_dir, _config, load_config_calls,
                   shell_config, timeout, deadline, cursor_agent, proc_vars, in_vars,
                   acc_vars, err_vars, result, raised>>

\* a mutant: the export line is appended whatever the file holds
ConfigurePathUnchecked ==
    /\ pc = "path"
    /\ \E io \in {"ok", "OSError"}, cursor_agent_exists \in BOOLEAN :
        LET name == get_shell_config_file(arg.SHELL, shell_config)
            file == shell_config[name]
            step2 == Append(steps_output, OutputLine("none", "Step 2: Configuring PATH..."))
            reported == Append(step2, OutputLine("ok", "Added PATH"))
        IN  /\ ops' = Append(ops, [step |-> "path", outcome |-> io])
            /\ IF io = "OSError"
               THEN /\ shell_config' = shell_config
                    /\ steps_output' = step2
                    /\ ret' = <<InstallerResult(FALSE, step2,
                                   <<"Failed to configure PATH: OSError">>, -1)>>
                    /\ pc' = "idle"
               ELSE /\ shell_config' =
                          [shell_config EXCEPT
                             ![name] = File(FileLines(file) \o InstallerBlock)]
                    /\ IF cursor_agent_exists
                       THEN /\ steps_output' =
                                  Append(reported, OutputLine("ok", "cursor-agent found"))
                            /\ ret' = ret
                            /\ pc' = "login"
                       ELSE /\ steps_output' =
                                  Append(reported,
                                         OutputLine("warn", "Note: cursor-agent may require terminal restart to be available"))
                            /\ ret' = <<InstallerResult(TRUE, steps_output', None, 0)>>
                            /\ pc' = "idle"
    /\ UNCHANGED <<arg, frames, logger, agents_dir, _config, load_config_calls,
                   install_calls, timeout, deadline, cursor_agent, proc_vars, in_vars,
                   acc_vars, err_vars, result, raised>>

\* lines 93-143: the shell configuration file is read and, unless it mentions
\* .local/bin, appended to; then cursor-agent is looked for
ConfigurePath ==
    /\ pc = "path"
    /\ \E io \in {"ok", "OSError"}, cursor_agent_exists \in BOOLEAN :
        LET name == get_shell_config_file(arg.SHELL, shell_config)
            file == shell_config[name]
            step2 == Append(steps_output, OutputLine("none", "Step 2: Configuring PATH..."))
            reported ==
                Append(step2, IF already_configured(file)
                              THEN OutputLine("ok", "PATH already configured")
                              ELSE OutputLine("ok", "Added PATH"))
        IN  /\ ops' = Append(ops, [step |-> "path", outcome |-> io])
            /\ IF io = "OSError"
               THEN /\ shell_config' = shell_config
                    /\ steps_output' = step2
                    /\ ret' = <<InstallerResult(FALSE, step2,
                                   <<"Failed to configure PATH: OSError">>, -1)>>
                    /\ pc' = "idle"
               ELSE /\ shell_config' =
                          IF already_configured(file)
                          THEN shell_config
                          ELSE [shell_config EXCEPT
                                  ![name] = File(FileLines(file) \o InstallerBlock)]
                    /\ IF cursor_agent_exists
                       THEN /\ steps_output' =
                                  Append(reported, OutputLine("ok", "cursor-agent found"))
                            /\ ret' = ret
                            /\ pc' = "login"
                       ELSE /\ steps_output' =
                                  Append(reported,
                                         OutputLine("warn", "Note: cursor-agent may require terminal restart to be available"))
                            /\ ret' = <<InstallerResult(TRUE, steps_output', None, 0)>>
                            /\ pc' = "idle"
    /\ UNCHANGED <<arg, frames, logger, agents_dir, _config, load_config_calls,
                   install_calls, timeout, deadline, cursor_agent, proc_vars, in_vars,
                   acc_vars, err_vars, result, raised>>

\* lines 165-175: what the login step appends to steps_output
login_lines(outcome, login_stdout) ==
    CASE outcome = "ok" ->
            <<OutputLine("ok", "cursor-agent authenticated successfully")>>
            \o (IF login_stdout # "" THEN <<OutputLine("none", login_stdout)>> ELSE <<>>)
      [] outcome = "nonzero" ->
            <<OutputLine("warn", "Authentication may require manual login: stderr")>>
      [] outcome = "timeout" ->
            <<OutputLine("warn", "Authentication timed out - please run 'cursor-agent login' manually")>>
      [] OTHER ->
            <<OutputLine("warn", "Authentication error: OSError - please run 'cursor-agent login' manually")>>

\* a mutant: a login that does not succeed fails the installation
LoginRequired ==
    /\ pc = "login"
    /\ \E outcome \in {"ok", "nonzero", "timeout", "raises"},
          login_stdout \in {"", "Logged in"} :
        /\ ops' = Append(ops, [step |-> "login", outcome |-> outcome])
        /\ steps_output' =
              steps_output
              \o <<OutputLine("none", "Step 3: Authenticating cursor-agent...")>>
              \o login_lines(outcome, login_stdout)
              \o <<OutputLine("none", "Step 4: Finalization"),
                   OutputLine("none", "Run 'source' or restart your terminal to apply PATH changes.")>>
        /\ ret' = IF outcome = "ok"
                  THEN <<InstallerResult(TRUE, steps_output', None, 0)>>
                  ELSE <<InstallerResult(FALSE, steps_output', <<"Login failed">>, -1)>>
    /\ pc' = "idle"
    /\ UNCHANGED <<arg, frames, logger, agents_dir, _config, load_config_calls,
                   shell_config, install_calls, timeout, deadline, cursor_agent,
                   proc_vars, in_vars, acc_vars, err_vars, result, raised>>

\* lines 145-188: cursor-agent login is run, then the result is returned
Login ==
    /\ pc = "login"
    /\ \E outcome \in {"ok", "nonzero", "timeout", "raises"},
          login_stdout \in {"", "Logged in"} :
        /\ ops' = Append(ops, [step |-> "login", outcome |-> outcome])
        /\ steps_output' =
              steps_output
              \o <<OutputLine("none", "Step 3: Authenticating cursor-agent...")>>
              \o login_lines(outcome, login_stdout)
              \o <<OutputLine("none", "Step 4: Finalization"),
                   OutputLine("none", "Run 'source' or restart your terminal to apply PATH changes.")>>
        /\ ret' = <<InstallerResult(TRUE, steps_output', None, 0)>>
    /\ pc' = "idle"
    /\ UNCHANGED <<arg, frames, logger, agents_dir, _config, load_config_calls,
                   shell_config, install_calls, timeout, deadline, cursor_agent,
                   proc_vars, in_vars, acc_vars, err_vars, result, raised>>

InstallerSpec == InstallerInit /\ [][(InstallStep \/ ConfigurePath \/ Login)]_vars

(***************************************************************************)
(* The claims.                                                             *)
(***************************************************************************)
Returned == pc = "done" /\ result # None

\* the result of lines 246-253: success False, the sentinel, an error that
\* names the timeout
IsTimeoutFailure(r) ==
    /\ r.success = FALSE
    /\ r.return_code = -1
    /\ \E i \in 1..Len(r.error) : r.error[i].t = "timed_out"

\* the deadline passed while process_stream was still reading stdout
TimedOutStreaming == deadline # None /\ deadline[1].at = "streaming"

\* the classifier of lines 275-354 produced the result: the subprocess was
\* spawned and stdout ended before the deadline
Classified == Returned /\ proc = "exited" /\ ~TimedOutStreaming

BenignSignature(lines) ==
    \E i \in 1..Len(lines) :
        lines[i] \in {"Premature close", "premature close", "PREMATURE CLOSE",
                      "NGHTTP2_INTERNAL_ERROR"}

\* C1: when the subprocess was spawned and stdout ended before the timeout,
\* success is True exactly when the exit code is 0, or stderr holds a benign
\* transport signature and the stripped output is longer than 100 characters.
C1_SuccessIffExitZeroOrBenign ==
    Classified =>
        (result[1].success <=>
            \/ returncode = <<0>>
            \/ /\ BenignSignature(stderr_output)
               /\ StrLen(strip(result[1].output)) > 100)

\* exit code 1, the signature in another letter case, a long output: success
C1_Witness ==
    /\ Classified
    /\ returncode = <<1>>
    /\ stderr_output = <<"PREMATURE CLOSE">>
    /\ result[1].output = LongJson
    /\ result[1].success

\* what C2 says of the result of a timeout
C2_TimeoutOutcome ==
    LET text == join(assistant_messages)
    IN  /\ IsTimeoutFailure(result[1])
        /\ result[1].events = events
        /\ result[1].session_id = session_id
        /\ result[1].output =
              IF extract_final_json(text) # None THEN extract_final_json(text)[1] ELSE text

C3_KillThenWaitThenReturn ==
    (result # None /\ IsTimeoutFailure(result[1])) =>
        /\ ops = <<"spawn", "kill", "wait">>
        /\ proc = "exited"

C3_Witness ==
    /\ Returned
    /\ IsTimeoutFailure(result[1])
    /\ returncode = <<KilledCode>>

C5_NeverRaises == raised = None /\ pc # "raised"

\* C6: when the executable is not located the result has success False,
\* return_code -1, an empty output, an error saying the CLI was not found and
\* no events, and no subprocess was spawned.
C6_NotFound ==
    (pc = "done" /\ cursor_agent = None) =>
        /\ result # None
        /\ result[1].success = FALSE
        /\ result[1].return_code = -1
        /\ result[1].output = <<>>
        /\ result[1].events = <<>>
        /\ \E i \in 1..Len(result[1].error) : result[1].error[i].t = "cli_not_found"
        /\ ops = <<>>
        /\ proc = "none"

C6_Witness == pc = "done" /\ cursor_agent = None /\ result # None

\* C7: when creating the subprocess fails, the invocation returns at once with
\* success False and return_code -1; no stream was read, and neither kill nor
\* wait was called.
C7_SpawnFailure ==
    proc = "failed" =>
        /\ Returned
        /\ result[1].success = FALSE
        /\ result[1].return_code = -1
        /\ consumed = <<>>
        /\ stderr_output = <<>>
        /\ stderr_task = "none"
        /\ ops = <<"spawn">>

C7_Witness ==
    /\ proc = "failed"
    /\ Returned
    /\ \E i \in 1..Len(result[1].error) : result[1].error[i].v = <<"PermissionError">>

Spawns == Cardinality({i \in 1..Len(ops) : ops[i] = "spawn"})

\* C8: an invocation spawns at most one subprocess: none when the executable
\* is not located, one otherwise, and never another after a failure, a timeout
\* or a kill.
C8_AtMostOneSpawn ==
    /\ Spawns <= 1
    /\ pc = "done" => (Spawns = IF cursor_agent = None THEN 0 ELSE 1)

\* a run that was killed and has returned
C8_Witness ==
    /\ pc = "done"
    /\ Spawns = 1
    /\ \E i \in 1..Len(ops) : ops[i] = "kill"

ThinkingEvents(evs) == {i \in 1..Len(evs) : evs[i].event_type = "thinking"}

EventOf(line) ==
    [event_type |-> IF line.type = None THEN "unknown" ELSE line.type[1],
     subtype |-> line.subtype, data |-> line]

RECURSIVE EventsOf(_)
EventsOf(lines) ==
    IF lines = <<>> THEN <<>>
    ELSE IF Head(lines).json = "object"
         THEN <<EventOf(Head(lines))>> \o EventsOf(Tail(lines))
         ELSE EventsOf(Tail(lines))

\* C10 as stated, its last part: the length of the events list is the count of
\* the consumed stdout lines that are valid JSON.
C10_Original ==
    Len(events) = Cardinality({i \in 1..Len(consumed) :
                                  consumed[i].json \in {"object", "other"}})

\* C10 as amended: the events list only grows by appending at the end, and at
\* every moment it is the sequence, in arrival order, of the consumed stdout
\* lines that parsed as events, which are the lines that are JSON objects: a
\* line that is not valid JSON, or is valid JSON but no object, is not in it.
C10_EventsAppendOnly ==
    /\ [](events = EventsOf(consumed))
    /\ [][/\ Len(events') >= Len(events)
          /\ SubSeq(events', 1, Len(events)) = events]_vars

C10_Witness ==
    /\ consumed = <<NonObjectLine, ThinkingLine>>
    /\ Len(events) = 1

(***************************************************************************)
(* Claims on the consumption of stdout.                                    *)
(***************************************************************************)
\* the accumulators after process_stream has taken lines, one after the other
RECURSIVE Replay(_)
Replay(lines) ==
    IF lines = <<>> THEN Accumulated(<<>>, <<>>, None, None)
    ELSE process_line(Replay(SubSeq(lines, 1, Len(lines) - 1)), lines[Len(lines)])

Malformed(line) == line.json = "invalid"

RECURSIVE WithoutMalformed(_)
WithoutMalformed(lines) ==
    IF lines = <<>> THEN <<>>
    ELSE IF Malformed(Head(lines)) THEN WithoutMalformed(Tail(lines))
    ELSE <<Head(lines)>> \o WithoutMalformed(Tail(lines))

\* the step took a line from stdout
TookLine == consumed' # consumed

\* C11: a line that is not JSON never stops consumption.  At every moment the
\* events, the assistant text, session_id and duration_ms are those of the same
\* stream with its malformed lines left out (so every valid line after a
\* malformed one is parsed, appended and accumulated); the step that takes a
\* malformed line leaves the loop running and records no stream error; and the
\* result the classifier builds is the one it builds for the stream without
\* the malformed lines.
C11_MalformedLineSkipped ==
    /\ [](Accumulated(events, assistant_messages, session_id, duration_ms)
            = Replay(WithoutMalformed(consumed)))
    /\ [][(TookLine /\ Malformed(consumed'[Len(consumed')]))
            => (pc' = pc /\ stream_error' = stream_error)]_vars
    /\ [](Classified =>
            LET acc == Replay(WithoutMalformed(consumed))
            IN  result[1] = ClassifyResult(acc.assistant_messages, stderr_output,
                                stream_error, returncode[1], acc.events,
                                acc.session_id, acc.duration_ms))

\* a malformed line, then an assistant line: the event and its text are in the
\* result, which is a success
C11_Witness ==
    /\ Classified
    /\ Len(consumed) = 2
    /\ Malformed(consumed[1])
    /\ consumed[2] = AssistantLine(<<TextBlock(ShortText)>>)
    /\ Len(result[1].events) = 1
    /\ result[1].output = ShortText
    /\ result[1].success

IsInit(line) ==
    line.json = "object" /\ line.type = <<"system">> /\ line.subtype = <<"init">>

IsResult(line) == line.json = "object" /\ line.type = <<"result">>

\* the session_id of the first system/init line that carries one, None when
\* there is none
RECURSIVE FirstInitSession(_)
FirstInitSession(lines) ==
    IF lines = <<>> THEN None
    ELSE IF IsInit(Head(lines)) /\ Head(lines).session_id # None
         THEN Head(lines).session_id
    ELSE FirstInitSession(Tail(lines))

\* C12: the session_id of the result is the one the first system/init event of
\* the stream carries; no later system/init event changes it.
C12_FirstInitWins ==
    Returned => result[1].session_id = FirstInitSession(consumed)

\* C13: taking a line leaves session_id as it was unless the line is a
\* system/init event, and duration_ms as it was unless it is a result event.
C13_FrameOfEvents ==
    [][TookLine =>
        LET line == consumed'[Len(consumed')]
        IN  /\ ~IsInit(line) => session_id' = session_id
            /\ ~IsResult(line) => duration_ms' = duration_ms]_vars

\* a field is set and an assistant, a tool_call or an untyped line was taken
\* after the event that set it
C13_Witness ==
    /\ Len(consumed) = 2
    /\ consumed[2] \in {AssistantLine(<<TextBlock(ShortText)>>), ToolCallLine, UntypedLine}
    /\ \/ IsInit(consumed[1]) /\ session_id = <<"s1">>
       \/ IsResult(consumed[1]) /\ duration_ms = <<5>>

\* C14: the duration_ms of a returned result is None only if no result event
\* with a duration_ms was consumed, also in an invocation that timed out.
C14_DurationKept ==
    Returned =>
        (result[1].duration_ms = None =>
            \A i \in 1..Len(consumed) :
                ~(IsResult(consumed[i]) /\ consumed[i].duration_ms # None))

\* C15 as stated: from_json returns None for a line that is not JSON, and for
\* a line that is JSON of any kind without a type field it returns, without
\* raising, an event of type "unknown" with the subtype of the line and the
\* decoded value as data.
C15_Original ==
    pc = "parsed" =>
        /\ arg.json \in {"invalid", "blank"} =>
                (~ret[1].raised /\ ret[1].event = None)
        /\ (arg.json \in {"other", "object"} /\ arg.type = None) =>
                /\ ~ret[1].raised
                /\ ret[1].event # None
                /\ ret[1].event[1].event_type = "unknown"
                /\ ret[1].event[1].subtype = arg.subtype
                /\ ret[1].event[1].data = arg

\* C15, amended: from_json returns None for a line that is not JSON; for a
\* line that is a JSON object without a type field it returns, without
\* raising, an event of type "unknown" with the subtype of the line (None when
\* it has none) and the decoded object as data; for a line that is JSON but no
\* object it raises instead of returning.
C15_FromJsonObjects ==
    pc = "parsed" =>
        /\ arg.json \in {"invalid", "blank"} =>
                (~ret[1].raised /\ ret[1].event = None)
        /\ (arg.json = "object" /\ arg.type = None) =>
                /\ ~ret[1].raised
                /\ ret[1].event # None
                /\ ret[1].event[1].event_type = "unknown"
                /\ ret[1].event[1].subtype = arg.subtype
                /\ ret[1].event[1].data = arg
        /\ arg.json = "other" => (ret[1].raised /\ ret[1].event = None)

\* an object with a subtype and no type has been parsed
C15_Witness ==
    /\ pc = "parsed"
    /\ arg.json = "object" /\ arg.type = None /\ arg.subtype = <<"init">>
    /\ ret[1].event # None
    /\ ret[1].event[1].event_type = "unknown"

(***************************************************************************)
(* Claims on extract_final_json.                                           *)
(***************************************************************************)
Extracted == pc \in {"extracted", "re_extracted"}

\* C16: extract_final_json is idempotent on its own output: when it returns a
\* string y, extract_final_json(y) returns y.
C16_Idempotent == pc = "re_extracted" => ret[1] = <<arg>>

Has(text, tokens) == \E i \in 1..Len(text) : text[i] \in tokens

\* C17: extract_final_json never returns malformed JSON: what it returns is
\* None or a string that loads as JSON, and it is None for the empty text and
\* for a text that holds no fence, no brace and no square bracket.
C17_NeverMalformed ==
    Extracted =>
        /\ ret[1] = None \/ json_loads_ok(ret[1][1])
        /\ arg = <<>> => ret[1] = None
        /\ ~Has(arg, {"F", "{", "["}) => ret[1] = None

\* a text that is no JSON itself and that holds malformed JSON in braces gave a
\* string that loads
C17_Witness ==
    /\ pc = "extracted"
    /\ ~json_loads_ok(arg)
    /\ \E i \in 1..Len(arg) - 1 : arg[i] = "{" /\ arg[i + 1] = "p"
    /\ ret[1] # None
    /\ json_loads_ok(ret[1][1])

\* the indices of the matches that load as JSON
Loading(ms) == {i \in 1..Len(ms) : json_loads_ok(ms[i])}

Last(S) == CHOOSE i \in S : \A j \in S : j <= i

\* the last of the matches that loads, None when none does
LastThatLoads(ms) ==
    IF Loading(ms) = {} THEN None ELSE <<strip(ms[Last(Loading(ms))])>>

\* C18: when blocks labelled json are in the text, the content of the last of
\* them that loads as JSON is returned, also when a later labelled block is
\* malformed, and before any unlabelled block or raw object or array.
C18_LastLabelledThatLoads ==
    Extracted =>
        LET labelled == FindFenced(arg, <<"F", "J">>, 1)
        IN  Loading(labelled) # {} => ret[1] = LastThatLoads(labelled)

FailedRun == Classified /\ ~result[1].success

\* the parts of the error when stderr is left out under the condition leave_out
ExpectedError(leave_out) ==
    LET stderr_str == StripLines(stderr_output)
        a == IF stderr_str # <<>> /\ ~leave_out
             THEN <<ErrorPart("stderr", stderr_str, 0)>> ELSE <<>>
        b == IF stream_error # None
             THEN <<ErrorPart("stream_error", stream_error, 0)>> ELSE <<>>
    IN  IF a \o b # <<>> THEN a \o b
        ELSE <<ErrorPart("exit_code", <<>>, returncode[1])>>

\* C20 as stated: the error of a failed run that reached the classifier is the
\* stderr content, only when it is not the benign transport signature, then
\* the stream exception, and the exit code message only when both are absent.
C20_Original ==
    FailedRun => result[1].error = ExpectedError(BenignSignature(stderr_output))

\* C20, amended: the error of a failed run that reached the classifier is the
\* stderr content whenever stderr is not empty, the transport signature
\* included, then the stream exception, and the exit code message only when
\* both are absent.
C20_ErrorParts ==
    FailedRun => result[1].error = ExpectedError(FALSE)

\* a failed run with both a stderr content and a stream exception
C20_Witness ==
    /\ FailedRun
    /\ Len(result[1].error) = 2
    /\ result[1].error[1].t = "stderr"
    /\ result[1].error[2].t = "stream_error"

(***************************************************************************)
(* Claims on the output of a classified run.                               *)
(***************************************************************************)
\* the text blocks of the assistant lines among lines, concatenated
RECURSIVE SaidIn(_)
SaidIn(lines) ==
    IF lines = <<>> THEN <<>>
    ELSE LET l == Head(lines)
         IN  (IF l.json = "object" /\ l.type = <<"assistant">>
              THEN join(TextsOf(l.content)) ELSE <<>>) \o SaidIn(Tail(lines))

\* C21: a successful result has an empty output only when the stream held no
\* assistant text; when it held some, the output is not empty and is either
\* the JSON extracted from the concatenated text or that whole text.
C21_OutputOfSuccess ==
    Classified /\ result[1].success =>
        LET text == SaidIn(consumed)
            final_json == extract_final_json(text)
        IN  IF text = <<>> THEN result[1].output = <<>>
            ELSE /\ result[1].output # <<>>
                 /\ \/ result[1].output = text
                    \/ final_json # None /\ result[1].output = final_json[1]

\* a successful run whose text holds no JSON, and one whose output is the
\* JSON found in a longer text
C21_Witness ==
    /\ Classified /\ result[1].success
    /\ \/ SaidIn(consumed) = ShortText /\ result[1].output = ShortText
       \/ /\ SaidIn(consumed) = ShortText \o LongJson
          /\ result[1].output = LongJson

(***************************************************************************)
(* Claims on what follows the end of stdout.                               *)
(***************************************************************************)
\* C22: once stdout has ended, the stderr reader is given a bounded time: the
\* finally block is left and the classifier reached whether or not stderr
\* ever closes, the reader is done or cancelled when the result is
\* classified, and the result of a cancelled reader holds the stderr lines
\* read until then.
C22_StderrGraceBounded ==
    /\ [](pc = "classify" => stderr_task \in {"done", "cancelled"})
    /\ [](Classified /\ stderr_task = "cancelled" /\ ~result[1].success
            /\ StripLines(stderr_output) # <<>>
          => result[1].error[1] = ErrorPart("stderr", StripLines(stderr_output), 0))
    /\ ((pc = "post_stream") ~> (pc = "classify"))
    /\ ((pc = "finally") ~> (pc \in {"classify", "done"}))

\* the reader was cancelled with a line read, and the result carries the line
C22_Witness ==
    /\ Classified
    /\ stderr_task = "cancelled"
    /\ stderr_output # <<>>
    /\ ~result[1].success
    /\ result[1].error[1].v = stderr_output

\* C23: when stdout has ended, a process whose returncode is not set is waited
\* for, and the wait ends: by its exit, or by a kill and a second wait that
\* come before the result is classified; a process whose returncode is set is
\* neither waited for nor killed.
C23_WaitThenKill ==
    /\ [][pc = "post_stream" /\ pc' # "post_stream" =>
            IF returncode # None
            THEN ops' = ops /\ pc' = "finally"
            ELSE ops' = Append(ops, "wait_for_wait") /\ pc' = "wait_exit"]_vars
    /\ [][pc = "wait_exit" /\ pc' # "wait_exit" =>
            IF proc = "exited"
            THEN ops' = ops /\ pc' = "finally"
            ELSE ops' = ops /\ pc' = "kill_lingering"]_vars
    /\ [][pc = "kill_lingering" /\ pc' # "kill_lingering" =>
            ops' = ops \o <<"kill", "wait">> /\ pc' = "wait_killed"]_vars
    /\ [](pc = "classify" => proc = "exited" /\ returncode # None)
    /\ [](Classified =>
            ops \in { <<"spawn">>, <<"spawn", "wait_for_wait">>,
                      <<"spawn", "wait_for_wait", "kill", "wait">> })
    /\ ((pc = "wait_exit") ~> (pc = "finally"))

\* a process that outlived the wait was killed and waited for before the
\* result was classified
C23_Witness ==
    /\ Classified
    /\ ops = <<"spawn", "wait_for_wait", "kill", "wait">>
    /\ returncode = <<KilledCode>>

(***************************************************************************)
(* Claims on broken pipes.                                                 *)
(***************************************************************************)
\* C24: when reading stdout ends by a transport failure and reading stderr by
\* an exception, no stream error is recorded, what was read until then is
\* kept, the error of the result never names a stream exception, and a run
\* whose exit code is 0 is a success.
C24_BrokenPipeIsNotAnError ==
    /\ pc \in {"post_stream", "classify"} => stream_error = None
    /\ Classified =>
          /\ result[1].events = Replay(consumed).events
          /\ returncode = <<0>> => result[1].success
          /\ ~result[1].success =>
                \A i \in 1..Len(result[1].error) : result[1].error[i].t # "stream_error"

\* stdout broke after a line and stderr after a line, the process exited with
\* code 0 and the run is a success
C24_Witness ==
    /\ Classified
    /\ consumed # <<>>
    /\ stderr_output # <<>>
    /\ stderr_task = "done"
    /\ returncode = <<0>>
    /\ result[1].success

(***************************************************************************)
(* Claims on concurrent callers.                                           *)
(***************************************************************************)
\* C25: whatever the interleaving of the reads of two concurrent invocations,
\* the events, the output, the session_id and the duration_ms of the result
\* of each are those of the lines its own subprocess wrote, and of no other.
C25_NoSharedAccumulation ==
    \A i \in Invocations :
        frames.of[i].pc = "done" =>
            LET own == Replay(frames.of[i].consumed)
                r == frames.of[i].result[1]
            IN  /\ \A k \in 1..Len(frames.of[i].consumed) :
                      frames.of[i].consumed[k] \in PairLines(i)
                /\ r.events = own.events
                /\ r.output = output_to_return(join(own.assistant_messages))
                /\ r.session_id = own.session_id
                /\ r.duration_ms = own.duration_ms

\* both invocations returned, each with the session and the text of its own
\* subprocess
C25_Witness ==
    /\ \A i \in Invocations : frames.of[i].pc = "done"
    /\ frames.of[1].result[1].session_id = <<"s1">>
    /\ frames.of[1].result[1].output = ShortText
    /\ frames.of[2].result[1].session_id = <<"s2">>
    /\ frames.of[2].result[1].output = LongJson

\* C26: however many callers get_logger has had, the setup routine has run at
\* most once, every caller that was returned a logger was returned the one
\* kept in the module, and the logger has at most one handler.
C26_SetupRunsOnce ==
    /\ logger.setups <= 1
    /\ \A c \in Callers :
          logger.got[c] \notin {"pending", "OSError"} =>
              logger.cached = <<logger.got[c]>>
    /\ Len(logger.handlers) <= 1

(***************************************************************************)
(* Claims on the command line.                                             *)
(***************************************************************************)
\* the places of token t in text s
Places(s, t) == { i \in 1..Len(s) : s[i] = t }

\* text s holds text u at place i
HoldsAt(s, u, i) == i >= 1 /\ i + Len(u) - 1 <= Len(s) /\ SubSeq(s, i, i + Len(u) - 1) = u

\* C27: the last argument of the command line is the prompt; the prompt
\* begins with the system prompt, ends with the task heading followed by the
\* task, and holds the context heading, once, followed by the context and
\* before the task heading, exactly when the context is not empty.
C27_PromptLayout ==
    pc = "spawned" =>
        LET c == ret[1].cmd
            prompt == c[Len(c)]
            tasks == Places(prompt, TaskHeader)
            contexts == Places(prompt, ContextHeader)
        IN  /\ HoldsAt(prompt, arg.system_prompt, 1)
            /\ Cardinality(tasks) = 1
            /\ \A j \in tasks :
                  /\ j > Len(arg.system_prompt)
                  /\ HoldsAt(prompt, <<"n", "n">> \o arg.task, j + 1)
                  /\ Len(prompt) = j + 2 + Len(arg.task)
                  /\ \A i \in contexts :
                        /\ i > Len(arg.system_prompt)
                        /\ HoldsAt(prompt, <<"n", "n">> \o arg.context, i + 1)
                        /\ i + 2 + Len(arg.context) < j
            /\ Cardinality(contexts) = IF arg.context # <<>> THEN 1 ELSE 0

\* a prompt with a context section, and one without
C27_Witness ==
    /\ pc = "spawned"
    /\ \/ arg.context = <<"p">> /\ Places(ret[1].cmd[10], ContextHeader) # {}
       \/ arg.context = <<>> /\ Places(ret[1].cmd[10], ContextHeader) = {}

\* C28: the subprocess is started in the cwd of the caller, whatever the
\* workspace; the value that follows --workspace is the workspace when one is
\* given, and the cwd when it is None or the empty string.
C28_WorkingDirectory ==
    pc = "spawned" =>
        LET c == ret[1].cmd
            flags == { i \in 1..(Len(c) - 1) : c[i] = "--workspace" }
        IN  /\ ret[1].cwd = arg.cwd
            /\ Cardinality(flags) = 1
            /\ \A i \in flags :
                  c[i + 1] = IF arg.workspace \in {None, <<"">>} THEN arg.cwd
                             ELSE arg.workspace[1]

\* a workspace other than the cwd was given: the process runs in the cwd
C28_Witness ==
    /\ pc = "spawned"
    /\ arg.workspace = <<"/workspace">>
    /\ arg.cwd = "/project"
    /\ ret[1].cwd = "/project"
    /\ ret[1].cmd[8] = "/workspace"

(***************************************************************************)
(* Claims on the lookup of the executable.                                 *)
(***************************************************************************)
\* the fallback locations that hold an executable regular file
Qualifying == { i \in 1..Len(common_paths) : arg.files[i].isfile /\ arg.files[i].x_ok }

\* C30: find_cursor_agent returns what the PATH lookup found when it found
\* something; otherwise the first fallback location, in the order of the
\* list, that holds an executable regular file, and None when none does.
C30_FindCursorAgent ==
    pc = "found" =>
        IF arg.which # None THEN ret[1] = arg.which
        ELSE IF Qualifying = {} THEN ret[1] = None
        ELSE \E i \in Qualifying :
                /\ \A j \in Qualifying : i <= j
                /\ ret[1] = <<common_paths[i]>>

\* nothing on the PATH, a file that is not executable at the first location,
\* a directory at the second, the executable at the third
C30_Witness ==
    /\ pc = "found"
    /\ arg.which = None
    /\ arg.files = <<PlainFile, Directory, ExecFile>>
    /\ ret[1] = <<common_paths[3]>>

(***************************************************************************)
(* Claims on invoke_subagent.                                              *)
(***************************************************************************)
\* invoke_subagent has ended, by a return or by an exception
Ended == pc \in {"returned", "raised"}

\* C29: invoke_subagent checks that the CLI is available, then that the role
\* is known, then that the system prompt loads.  At the first check that
\* fails it returns a mapping with success False, an empty output, an error,
\* no session_id, no duration_ms and a model_used that is None for the first
\* two checks and the resolved model for the third, and invoke_cursor_agent
\* is not called; when all pass, invoke_cursor_agent is called and its result
\* returned.
C29_ChecksInOrder ==
    Ended =>
        LET called == \E i \in 1..Len(ops) : ops[i] = "invoke_cursor_agent"
            model_to_use == IF arg.model # None THEN arg.model[1] ELSE arg.default_model
            failure(model_used) ==
                /\ ret # None
                /\ ret[1].success = FALSE
                /\ ret[1].output = <<>>
                /\ ret[1].error # None
                /\ ret[1].session_id = None
                /\ ret[1].duration_ms = None
                /\ ret[1].model_used = model_used
                /\ ~called
        IN  IF ~arg.available THEN failure(None)
            ELSE IF arg.agent_role = "unknown" THEN failure(None)
            ELSE IF ~arg.prompt_exists THEN failure(<<model_to_use>>)
            ELSE /\ called
                 /\ ret # None
                 /\ ret[1].success = arg.outcome.success
                 /\ ret[1].model_used = <<model_to_use>>

(***************************************************************************)
(* Claims on every result.                                                 *)
(***************************************************************************)
\* C36: a returned result with success False has an error that is not None
\* and not empty, whichever lines built it: the executable was not found,
\* the spawn failed, the deadline passed, the exit code was not 0, or an
\* unexpected exception was caught.
C36_FailureHasError ==
    Returned /\ ~result[1].success =>
        /\ result[1].error # None
        /\ Len(result[1].error) >= 1
        /\ \A i \in 1..Len(result[1].error) :
              result[1].error[i].t \in {"cli_not_found", "failed_to_execute", "unexpected",
                                       "timed_out", "stderr", "stream_error", "exit_code"}
        /\ \A i \in 1..Len(result[1].error) :
              result[1].error[i].t = "stderr" => result[1].error[i].v # <<>>

\* a failed spawn, and a run that failed with nothing on stderr: the error is
\* the message of the spawn, and the message of the exit code
C36_Witness ==
    /\ Returned /\ ~result[1].success
    /\ \/ proc = "failed" /\ result[1].error[1].t = "failed_to_execute"
       \/ /\ proc = "exited" /\ stderr_output = <<>> /\ stream_error = None
          /\ result[1].error = <<ErrorPart("exit_code", <<>>, 1)>>

\* C38: the result of a classified run carries the exit code of the process;
\* a success whose exit code is not 0 has the error None, and an exit code of
\* 0 is always a success.
C38_ExitCodeKept ==
    Classified =>
        /\ result[1].return_code = returncode[1]
        /\ returncode = <<0>> => result[1].success
        /\ result[1].success /\ returncode # <<0>> =>
              /\ result[1].return_code # 0
              /\ result[1].error = None
              /\ BenignSignature(stderr_output)

\* a success with the exit code 1
C38_Witness ==
    /\ Classified
    /\ result[1].success
    /\ result[1].return_code = 1
    /\ result[1].error = None
    /\ stderr_output = <<"NGHTTP2_INTERNAL_ERROR">>

(***************************************************************************)
(* Claims on the error of a successful run.                                *)
(***************************************************************************)
SuccessfulRun == Classified /\ result[1].success

\* stderr holds a line that is not the benign transport signature
OtherContent(lines) ==
    \E i \in 1..Len(lines) :
        lines[i] \notin {"", "Premature close", "premature close", "PREMATURE CLOSE",
                         "NGHTTP2_INTERNAL_ERROR"}

\* the stream exception is no part of the error, and the exit code 0 is a
\* success with or without one
StreamErrorIgnored ==
    /\ SuccessfulRun /\ result[1].error # None =>
          \A i \in 1..Len(result[1].error) : result[1].error[i].t # "stream_error"
    /\ Classified /\ returncode = <<0>> => result[1].success

\* C40 as stated: the error of a successful run is None unless stderr holds
\* content other than the benign signature, the stream exception is no part
\* of it, and the exit code 0 is a success with or without a stream exception.
C40_Original ==
    /\ SuccessfulRun /\ ~OtherContent(stderr_output) => result[1].error = None
    /\ StreamErrorIgnored

\* C40, amended: the error of a successful run is None when stderr is empty,
\* or holds the benign signature under an output longer than the threshold;
\* it is the stderr content otherwise, the signature alone included; the
\* stream exception is no part of it, and the exit code 0 is a success with
\* or without a stream exception.
C40_SuccessError ==
    /\ SuccessfulRun =>
          result[1].error =
              IF \/ StripLines(stderr_output) = <<>>
                 \/ /\ BenignSignature(stderr_output)
                    /\ StrLen(strip(result[1].output)) > UsefulLength
              THEN None
              ELSE <<ErrorPart("stderr", StripLines(stderr_output), 0)>>
    /\ StreamErrorIgnored

\* a stream exception was captured, stderr held the signature alone, the
\* output was short and the exit code 0: a success whose error is the stderr
\* content alone
C40_Witness ==
    /\ SuccessfulRun
    /\ stream_error # None
    /\ returncode = <<0>>
    /\ stderr_output = <<"PREMATURE CLOSE">>
    /\ result[1].error = <<ErrorPart("stderr", <<"PREMATURE CLOSE">>, 0)>>

(***************************************************************************)
(* Claims on the threshold of the useful output.                           *)
(***************************************************************************)
\* the classifier was given an exit code other than 0 and the signature
SignatureOnFailure ==
    pc = "classified" /\ arg.code # 0 /\ BenignSignature(arg.stderr)

C39_KilledRunClassified ==
    Classified /\ Killed =>
        /\ ops = <<"spawn", "wait_for_wait", "kill", "wait">>
        /\ result[1].return_code = returncode[1]
        /\ returncode = <<KilledCode>> =>
              /\ result[1].return_code # 0
              /\ result[1].success <=>
                    /\ BenignSignature(stderr_output)
                    /\ StrLen(strip(result[1].output)) > UsefulLength

\* an answer was streamed, nothing was written to stderr, the process was
\* killed: a failure that names the exit status of the kill
C39_Witness ==
    /\ Classified /\ Killed
    /\ returncode = <<KilledCode>>
    /\ result[1].output = ShortText
    /\ ~result[1].success
    /\ result[1].error = <<ErrorPart("exit_code", <<>>, KilledCode)>>

\* C35: once the subprocess was spawned, a result exists only when the
\* subprocess has exited and its exit status is known: after a normal exit,
\* after the kill of a process that outlived stdout, after the kill of a
\* timeout, and after an exception while stdout was read.
C35_ExitedBeforeResult ==
    (result # None /\ proc \notin {"none", "failed"}) =>
        /\ proc = "exited"
        /\ returncode # None
        /\ Killed => ops[Len(ops)] = "wait"

\* reading stdout raised, the process was still running after the wait and
\* was killed, and the result was returned
C35_Witness ==
    /\ Returned
    /\ stream_error # None
    /\ ops = <<"spawn", "wait_for_wait", "kill", "wait">>
    /\ proc = "exited"

(***************************************************************************)
(* Claims on termination.                                                  *)
(***************************************************************************)
\* C34: an invocation that reads stdout under a timeout, and an invocation
\* whose stdout has ended, with or without a timeout, returns a result;
\* stdout, stderr and the process are not assumed to end by themselves, a
\* killed process is assumed to end.
C34_EventuallyReturns ==
    ((pc = "streaming" /\ timeout # None) \/ pc = "post_stream") ~> Returned

\* a timeout passed with stdout open, stderr was still open when the result
\* was returned and the process ended by the kill alone
C34_Witness ==
    /\ Returned
    /\ TimedOutStreaming
    /\ stderr_task = "cancelled"
    /\ returncode = <<KilledCode>>

(***************************************************************************)
(* Claims on get_config.                                                   *)
(***************************************************************************)
\* every call returned the object of the first call
SameObjectReturned == \A i \in 1..Len(ops) : ops[i].returned = ops[1].returned

InstallerReturned == pc = "idle" /\ ret # None

LastStep == ops[Len(ops)]

Said(line) == \E k \in 1..Len(ret[1].output) : ret[1].output[k] = line

\* C31: when the install step and the PATH step succeeded, a login that
\* exits with a non-zero status, times out or raises leaves a result with
\* success True, return_code 0, no error and a warning in its output, next
\* to the lines of the steps that succeeded; whatever step ends a run, the
\* line of a successful installation stays in the output.
C31_LoginNeverFailsTheRun ==
    /\ (InstallerReturned /\ LastStep.step = "login" /\ LastStep.outcome # "ok") =>
          /\ ret[1].success
          /\ ret[1].return_code = 0
          /\ ret[1].error = None
          /\ \E k \in 1..Len(ret[1].output) : ret[1].output[k].mark = "warn"
          /\ Said(InstalledLine)
          /\ Said(OutputLine("ok", "cursor-agent found"))
    /\ (InstallerReturned /\ ops[1].outcome = "ok") => Said(InstalledLine)

\* the login timed out after the file was patched
C31_Witness ==
    /\ InstallerReturned
    /\ LastStep = [step |-> "login", outcome |-> "timeout"]
    /\ Said(OutputLine("ok", "Added PATH"))
    /\ ret[1].success

Occurrences(line, file) ==
    Cardinality({k \in 1..Len(FileLines(file)) : FileLines(file)[k] = line})

\* C32: whatever the number of runs, a shell configuration file holds what it
\* held before the first run, followed at most once by the lines of the
\* installer; the export line occurs once at most, and a file that mentioned
\* .local/bin before the first run is as it was.
C32_PatchedOnce ==
    \A name \in {"zshrc", "bashrc"} :
        /\ \/ shell_config[name] = arg[name]
           \/ shell_config[name] = File(FileLines(arg[name]) \o InstallerBlock)
        /\ Occurrences(PathExport, shell_config[name]) <= 1
        /\ already_configured(arg[name]) => shell_config[name] = arg[name]

\* a second run found the file the first run had created
C32_Witness ==
    /\ InstallerReturned
    /\ install_calls = 2
    /\ arg.zshrc = None
    /\ shell_config.zshrc = File(InstallerBlock)
    /\ ret[1].success
    /\ Said(OutputLine("ok", "PATH already configured"))
====
